---- MODULE Spec2Model ----
(***************************************************************************)
(* dotbeam: the frame codec (Go package dotbeam: Encoder, Decoder) and the *)
(* scanner's consensus decoder (web/static/scanner.js: Decoder).           *)
(*                                                                         *)
(* A dot is modelled by its Value alone: no decoder reads Ring, Index, X   *)
(* or Y.  Bytes are naturals below 256, bit strings are sequences of 0/1.  *)
(***************************************************************************)
EXTENDS Integers, Sequences, FiniteSets, TLC

VARIABLES
    config,      \* Encoder.config / Decoder.config: [Rings, BitsPerDot]
    data,        \* the payload handed to Encoder.Encode
    txFrames,    \* the []Frame returned by Encode (<<>> before the call)
    encoded,     \* Encode has been called
    order,       \* the caller's feeding order: "asc", "desc" or "any"
    fed,         \* indices of the transmission the caller has fed so far
    frames,      \* Decoder.frames: frame index -> payload
    total,       \* Decoder.total
    received,    \* Decoder.received
    noise,       \* the misreads the camera channel can make (sets of dots replaced)
    _currentFrameIndex,  \* DotbeamRenderer._currentFrameIndex: the frame on screen
    _votes,      \* scanner Decoder._votes: frame index -> captures (dot-value arrays)
    _frames,     \* scanner Decoder._frames: frame index -> voted payload
    _totalFrames, \* scanner Decoder._totalFrames: null until locked
    _received,   \* scanner Decoder._received
    _ftCounts,   \* scanner Decoder._ftCounts: frame total -> captures reporting it
    _ftTotal,    \* scanner Decoder._ftTotal
    _running,    \* DotbeamScanner._running
    _cachedTransform, \* DotbeamScanner._cachedTransform: null or a transform
    _dbgTransform, \* DotbeamScanner._dbgTransform: the transform the last tick used
    _dbgStatus,  \* DotbeamScanner._dbgStatus
    _stream,     \* DotbeamScanner._stream: null or the camera stream held
    _rafId,      \* DotbeamScanner._rafId: null or the animation-frame request made last
    srcObject,   \* video.srcObject: null or the stream the video element plays
    acquiring,   \* getUserMedia calls that have not settled yet
    liveStreams, \* camera streams acquired whose tracks have not been stopped
    metaListeners, \* loadedmetadata listeners registered and not yet run
    rafQueue,    \* animation-frame requests waiting to run
    starts,      \* calls of start() that went on to getUserMedia
    sample,      \* the white-balanced colour <<r, g, b>> of the dot last classified
    lib_txFrames, \* what the JS library's Encoder.encode returned (<<>> before the call)
    lib_frames,  \* JS library Decoder.frames: frame index -> payload
    lib_total,   \* JS library Decoder.total
    lib_received, \* JS library Decoder.received
    lastOp,      \* the operation that was performed last
    ret          \* what that operation returned

goVars == <<frames, total, received>>
jsVars == <<_votes, _frames, _totalFrames, _received, _ftCounts, _ftTotal>>
txVars == <<config, data, txFrames, encoded, order, noise, _currentFrameIndex>>
scanVars == <<_running, _cachedTransform, _dbgTransform, _dbgStatus>>
vars == <<config, data, txFrames, encoded, order, fed, frames, total, received,
          noise, _currentFrameIndex, _votes, _frames, _totalFrames, _received,
          _ftCounts, _ftTotal, _running, _cachedTransform, _dbgTransform, _dbgStatus,
          _stream, _rafId, srcObject, acquiring, liveStreams, metaListeners, rafQueue,
          starts, sample, lib_txFrames, lib_frames, lib_total, lib_received, lastOp, ret>>
libVars == <<lib_txFrames, lib_frames, lib_total, lib_received>>
camVars == <<_stream, _rafId, srcObject, acquiring, liveStreams, metaListeners, rafQueue,
             starts>>

\* ------------------------------------------------------------------ bounds

\* Longest payload enumerated byte by byte.
MaxShortLen == 2
\* Transmissions of at most this many frames are fed in every order.
MaxPermFrames == 3

\* Protocol limit on the number of frames (one header byte).
MaxFrames == 255

\* The bytes short payloads are made of.
PayloadBytes == {0, 65, 255}

\* Configurations: 6 dots x 4 bits = 3 bytes (1 payload byte per frame), and
\* 18 dots x 3 bits = 54 bits = 6 whole bytes (4 payload bytes per frame, 6
\* trailing bits that carry nothing).
Configs == { [Rings |-> 1, BitsPerDot |-> 4], [Rings |-> 2, BitsPerDot |-> 3] }

\* ------------------------------------------------------------------ helpers

Min(a, b) == IF a < b THEN a ELSE b

Range(s) == { s[i] : i \in 1..Len(s) }

IsPrefix(p, s) == Len(p) <= Len(s) /\ SubSeq(s, 1, Len(p)) = p

\* The element of a one-element set.  The({ e(x) : x \in {v} }) is e with x
\* bound to the value of v, computed once.
The(S) == CHOOSE x \in S : TRUE

\* The array <<F(1), ..., F(n)>>.
Array(n, F(_)) ==
    LET RECURSIVE Fill(_, _)
        Fill(lo, hi) ==
            IF lo > hi THEN <<>>
            ELSE IF lo = hi THEN <<F(lo)>>
            ELSE The({ Fill(lo, mid) \o Fill(mid + 1, hi) : mid \in { (lo + hi) \div 2 } })
    IN The({ Fill(1, len) : len \in {n} })

Zeros(n) == Array(n, LAMBDA i : 0)

\* ------------------------------------------------------------------ Config

TotalDots(c) ==
    LET RECURSIVE Sum(_, _)
        Sum(ring, acc) == IF ring > c.Rings THEN acc ELSE Sum(ring + 1, acc + ring * 6)
    IN Sum(1, 0)

BitsPerFrame(c) == TotalDots(c) * c.BitsPerDot

BytesPerFrame(c) == (BitsPerFrame(c) \div 8) - 2

\* ------------------------------------------------------------------ Encoder

\* bytesToBits emitting each byte's bits LSB first.
bytesToBitsLsbFirst(bytes) ==
    Array(8 * Len(bytes),
          LAMBDA k : (bytes[((k - 1) \div 8) + 1] \div (2 ^ ((k - 1) % 8))) % 2)

bytesToBits(bytes) ==
    Array(8 * Len(bytes),
          LAMBDA k : (bytes[((k - 1) \div 8) + 1] \div (2 ^ (7 - ((k - 1) % 8)))) % 2)

\* A dot value built with the first bit lowest.
DotValueLsbFirst(bits, bitStart, bitsPerDot) ==
    LET RECURSIVE Shift(_, _)
        Shift(value, b) ==
            IF b = bitsPerDot THEN value
            ELSE Shift(value + bits[bitStart + b + 1] * (2 ^ b), b + 1)
    IN Shift(0, 0)

\* value = (value << 1) | bit, bitsPerDot times, in a uint8.
DotValue(bits, bitStart, bitsPerDot) ==
    LET RECURSIVE Shift(_, _)
        Shift(value, b) ==
            IF b = bitsPerDot THEN value
            ELSE Shift(((value * 2) % 256) + bits[bitStart + b + 1], b + 1)
    IN Shift(0, 0)

\* One dot per layout position, ring by ring, until the bits run out.
bytesToDots(c, bytes) ==
    LET bits == bytesToBits(bytes)
        n == Min(TotalDots(c), Len(bits) \div c.BitsPerDot)
    IN Array(n, LAMBDA dotIndex :
                    DotValue(bits, (dotIndex - 1) * c.BitsPerDot, c.BitsPerDot))

EncodeFrame(c, d, i, totalFrames) ==
    LET bytesPerFrame == BytesPerFrame(c)
        start == i * bytesPerFrame
        end == Min(start + bytesPerFrame, Len(d))
        chunk == SubSeq(d, start + 1, end)
        frameBytes == <<i % 256, totalFrames % 256>> \o chunk
        totalBytes == (BitsPerFrame(c) + 7) \div 8
        padded == IF Len(frameBytes) < totalBytes
                  THEN frameBytes \o Zeros(totalBytes - Len(frameBytes))
                  ELSE frameBytes
    IN [Index |-> i, Total |-> totalFrames, Dots |-> bytesToDots(c, padded),
        Payload |-> chunk]

\* Encode without the protocol limit on the number of frames.
EncodeUncapped(c, d) ==
    LET bytesPerFrame == BytesPerFrame(c)
        totalFrames == (Len(d) + bytesPerFrame - 1) \div bytesPerFrame
    IN IF bytesPerFrame <= 0 THEN <<>>
       ELSE Array(totalFrames, LAMBDA k : EncodeFrame(c, d, k - 1, totalFrames))

Encode(c, d) ==
    LET bytesPerFrame == BytesPerFrame(c)
        needed == (Len(d) + bytesPerFrame - 1) \div bytesPerFrame
        totalFrames == IF needed > MaxFrames THEN MaxFrames ELSE needed
    IN IF bytesPerFrame <= 0 THEN <<>>
       ELSE Array(totalFrames, LAMBDA k : EncodeFrame(c, d, k - 1, totalFrames))

\* ------------------------------------------------------------------ Decoder

dotsToBytes(c, dots) ==
    LET bitsPerDot == c.BitsPerDot
        bits == Array(Len(dots) * bitsPerDot,
                      LAMBDA k : (dots[((k - 1) \div bitsPerDot) + 1]
                          \div (2 ^ (bitsPerDot - 1 - ((k - 1) % bitsPerDot)))) % 2)
        numBytes == Len(bits) \div 8
        RECURSIVE Pack(_, _, _)
        Pack(i, j, val) ==
            IF j = 8 THEN val
            ELSE Pack(i, j + 1, ((val * 2) % 256) + bits[i * 8 + j + 1])
    IN Array(numBytes, LAMBDA i : Pack(i - 1, 0, 0))

AddFrameData(c, dots) == dotsToBytes(c, dots)

\* AddFrame storing each payload under its arrival position, not its frame index.
AddFrameStepByArrival(c, dots, fr, tot, rec) ==
    LET bytes == AddFrameData(c, dots)
        rejected == [frames |-> fr, total |-> tot, received |-> rec,
                     done |-> FALSE, err |-> "ErrInvalidFrame"]
    IN IF Len(dots) = 0 \/ Len(bytes) < 2 THEN rejected
       ELSE IF bytes[2] = 0 THEN rejected
       ELSE [frames |-> (rec :> SubSeq(bytes, 3, Len(bytes))) @@ fr, total |-> bytes[2],
             received |-> rec + 1, done |-> rec + 1 >= bytes[2], err |-> "nil"]

\* AddFrame as it would be if it stored and counted every frame, stored or not.
AddFrameStepOverwrite(c, dots, fr, tot, rec) ==
    LET bytes == AddFrameData(c, dots)
        rejected == [frames |-> fr, total |-> tot, received |-> rec,
                     done |-> FALSE, err |-> "ErrInvalidFrame"]
    IN IF Len(dots) = 0 THEN rejected
       ELSE IF Len(bytes) < 2 THEN rejected
       ELSE LET frameIndex == bytes[1]
                frameTotal == bytes[2]
                payload == SubSeq(bytes, 3, Len(bytes))
                fr2 == (frameIndex :> payload) @@ fr
                rec2 == rec + 1
            IN IF frameTotal = 0 THEN rejected
               ELSE [frames |-> fr2, total |-> frameTotal, received |-> rec2,
                     done |-> rec2 >= frameTotal, err |-> "nil"]

\* AddFrame as it would be if it set d.total before looking at the frame total.
AddFrameStepTotalFirst(c, dots, fr, tot, rec) ==
    LET bytes == AddFrameData(c, dots)
        rejected == [frames |-> fr, total |-> tot, received |-> rec,
                     done |-> FALSE, err |-> "ErrInvalidFrame"]
    IN IF Len(dots) = 0 THEN rejected
       ELSE IF Len(bytes) < 2 THEN rejected
       ELSE LET frameIndex == bytes[1]
                frameTotal == bytes[2]
                payload == SubSeq(bytes, 3, Len(bytes))
                exists == frameIndex \in DOMAIN fr
                fr2 == IF exists THEN fr ELSE (frameIndex :> payload) @@ fr
                rec2 == IF exists THEN rec ELSE rec + 1
            IN IF frameTotal = 0 THEN [rejected EXCEPT !.total = frameTotal]
               ELSE [frames |-> fr2, total |-> frameTotal, received |-> rec2,
                     done |-> rec2 >= frameTotal, err |-> "nil"]

\* Decoder.AddFrame: the decoder's fields after the call and what it returns.
AddFrameStep(c, dots, fr, tot, rec) ==
    LET bytes == AddFrameData(c, dots)
        rejected == [frames |-> fr, total |-> tot, received |-> rec,
                     done |-> FALSE, err |-> "ErrInvalidFrame"]
    IN IF Len(dots) = 0 THEN rejected
       ELSE IF Len(bytes) < 2 THEN rejected
       ELSE LET frameIndex == bytes[1]
                frameTotal == bytes[2]
                payload == SubSeq(bytes, 3, Len(bytes))
                exists == frameIndex \in DOMAIN fr
                fr2 == IF exists THEN fr ELSE (frameIndex :> payload) @@ fr
                rec2 == IF exists THEN rec ELSE rec + 1
            IN IF frameTotal = 0 THEN rejected
               ELSE [frames |-> fr2, total |-> frameTotal, received |-> rec2,
                     done |-> rec2 >= frameTotal, err |-> "nil"]

\* Decoder.Data: the bytes and the error it returns in the current state.
Data(fr, tot, rec) ==
    LET RECURSIVE Loop(_, _)
        Loop(i, result) ==
            IF i >= tot THEN [bytes |-> result, err |-> "nil"]
            ELSE IF i \notin DOMAIN fr THEN [bytes |-> <<>>, err |-> "ErrIncompleteData"]
            ELSE Loop(i + 1, result \o fr[i])
    IN IF rec < tot THEN [bytes |-> <<>>, err |-> "ErrIncompleteData"]
       ELSE Loop(0, <<>>)

\* Decoder.Progress as the fraction <<numerator, denominator>>.
Progress(tot, rec) == IF tot = 0 THEN <<0, 1>> ELSE <<rec, tot>>

\* ---------------------------------------------------- scanner.js Decoder

\* Minimum captures per frame before the majority-voted result is trusted.
MIN_VOTES == 5
\* Captures to observe before locking totalFrames.
FT_SETTLE_MIN == 10
\* The largest frame total addFrame accepts.
MAX_TOTAL_FRAMES == 200

\* JavaScript null, encoded as an integer no byte can equal.
null == -1

\* Palette indices (3 bits each) to bytes.
_dotsToBytes(dotValues) ==
    LET Bits(dots) == Array(3 * Len(dots),
                            LAMBDA k : ((dots[((k - 1) \div 3) + 1] % 8)
                                \div (2 ^ (2 - ((k - 1) % 3)))) % 2)
        Bytes(bits) ==
            LET RECURSIVE Pack(_, _, _)
                Pack(b, bi, byte) ==
                    IF bi = 8 THEN byte ELSE Pack(b, bi + 1, byte * 2 + bits[b + bi + 1])
            IN Array(Len(bits) \div 8, LAMBDA i : Pack((i - 1) * 8, 0, 0))
    IN The({ Bytes(bits) : bits \in { Bits(dots) : dots \in {dotValues} } })

\* counts[v] of _majorityVote for dot position d.
\* counts[v] is at position v + 1.
VoteCounts(captures, d) ==
    Array(8, LAMBDA k :
        Cardinality({ c \in 1..Len(captures) :
                        (IF d <= Len(captures[c]) THEN captures[c][d] % 8 ELSE 0) = k - 1 }))

\* The scan of the counts stopping one value short of the palette's last.
VoteBestShortScan(counts) ==
    LET RECURSIVE Scan(_, _)
        Scan(v2, best) ==
            IF v2 = 7 THEN best
            ELSE IF counts[v2 + 1] > counts[best + 1] THEN Scan(v2 + 1, v2)
            ELSE Scan(v2 + 1, best)
    IN Scan(1, 0)

\* best starts at 0 and moves to v2 = 1..7 only on a strictly higher count.
VoteBest(counts) ==
    LET RECURSIVE Scan(_, _)
        Scan(v2, best) ==
            IF v2 = 8 THEN best
            ELSE IF counts[v2 + 1] > counts[best + 1] THEN Scan(v2 + 1, v2)
            ELSE Scan(v2 + 1, best)
    IN Scan(1, 0)

\* No vote: the latest capture wins.
_latestCapture(captures) ==
    IF Len(captures) = 0 THEN <<>> ELSE captures[Len(captures)]

_majorityVote(captures) ==
    IF Len(captures) = 0 THEN <<>>
    ELSE Array(Len(captures[1]), LAMBDA d : VoteBest(VoteCounts(captures, d)))

\* progress() counting only the frames already voted.
progressVotedOnly(s) ==
    LET T == s.totalFrames
        Part(i) == IF i \in DOMAIN s.frames THEN 100 ELSE 0
        RECURSIVE Sum(_, _)
        Sum(i, acc) == IF i >= T THEN acc ELSE Sum(i + 1, acc + Part(i))
    IN IF T = null \/ T = 0 THEN <<0, 1>>
       ELSE <<Min(Sum(0, 0), 100 * T), 100 * T>>

\* Decoder.prototype.progress as the fraction <<numerator, denominator>>, in
\* hundredths of a frame: a voted frame counts 100, a bucket of n captures
\* min(n / MIN_VOTES, 0.99).
progress(s) ==
    LET T == s.totalFrames
        Part(i) == IF i \in DOMAIN s.frames THEN 100
                   ELSE IF i \in DOMAIN s.votes
                        THEN Min((100 * Len(s.votes[i])) \div MIN_VOTES, 99)
                        ELSE 0
        RECURSIVE Sum(_, _)
        Sum(i, acc) == IF i >= T THEN acc ELSE Sum(i + 1, acc + Part(i))
    IN IF T = null \/ T = 0 THEN <<0, 1>>
       ELSE <<Min(Sum(0, 0), 100 * T), 100 * T>>

\* The plurality winner of the tally: the first key, in ascending order, with
\* the highest count.
PluralityWinner(counts) ==
    CHOOSE bestFt \in DOMAIN counts :
        \A k \in DOMAIN counts :
            \/ counts[k] < counts[bestFt]
            \/ counts[k] = counts[bestFt] /\ k >= bestFt

\* The lock step without the 30% credibility check.
LockDecisionNoQuorum(counts, n) ==
    IF n < FT_SETTLE_MIN THEN null ELSE PluralityWinner(counts)

\* The lock step taking the plurality winner from the first capture on.
LockDecisionAtOnce(counts, n) == PluralityWinner(counts)

\* The lock step of addFrame on the tally that already counts this capture:
\* the total to lock, or null to keep waiting.
LockDecision(counts, n) ==
    IF n < FT_SETTLE_MIN THEN null
    ELSE LET bestFt == PluralityWinner(counts)
         IN IF 10 * counts[bestFt] < 3 * n THEN null ELSE bestFt

\* Whether addFrame's sanity checks let a header through.
HeaderOk(frameIndex, totalFrames) ==
    /\ totalFrames # 0
    /\ totalFrames <= MAX_TOTAL_FRAMES
    /\ frameIndex < totalFrames

\* The tally after counting a capture that reports totalFrames.
Tally(s, totalFrames) ==
    [s EXCEPT !.ftCounts = (totalFrames :>
                              (IF totalFrames \in DOMAIN s.ftCounts
                               THEN s.ftCounts[totalFrames] ELSE 0) + 1) @@ s.ftCounts,
              !.ftTotal = s.ftTotal + 1]

\* Accumulation that votes once, on the first MIN_VOTES captures of an index.
AccumulateFirstVote(s, frameIndex, dotValues) ==
    LET old == IF frameIndex \in DOMAIN s.votes THEN s.votes[frameIndex] ELSE <<>>
        done(st) == The({ [st |-> st, complete |-> st.received >= st.totalFrames,
                           progress |-> p] : p \in { progress(st) } })
        Voted(s1, votedBytes) ==
            LET s2 == [s1 EXCEPT !.received = IF frameIndex \in DOMAIN s.frames
                                              THEN s.received ELSE s.received + 1,
                                 !.frames = (frameIndex :>
                                               SubSeq(votedBytes, 3, Len(votedBytes)))
                                            @@ s.frames]
                s3 == [s EXCEPT !.votes = (frameIndex :> <<>>) @@ s.votes]
            IN IF votedBytes[1] # frameIndex \/ votedBytes[2] # s.totalFrames
               THEN [st |-> s3, complete |-> FALSE, progress |-> progress(s3)]
               ELSE done(s2)
        Pushed(s1) ==
            IF Len(s1.votes[frameIndex]) < MIN_VOTES \/ frameIndex \in DOMAIN s.frames
            THEN done(s1)
            ELSE The({ Voted(s1, votedBytes) :
                         votedBytes \in { _dotsToBytes(voted) :
                                            voted \in { _majorityVote(s1.votes[frameIndex]) } } })
    IN The({ Pushed(s1) :
               s1 \in { [s EXCEPT !.votes = (frameIndex :> Append(old, dotValues)) @@ s.votes] } })

\* Accumulation that counts a frame as received on every vote.
AccumulateCountsVotes(s, frameIndex, dotValues) ==
    LET old == IF frameIndex \in DOMAIN s.votes THEN s.votes[frameIndex] ELSE <<>>
        done(st) == The({ [st |-> st, complete |-> st.received >= st.totalFrames,
                           progress |-> p] : p \in { progress(st) } })
        Voted(s1, votedBytes) ==
            LET s2 == [s1 EXCEPT !.received = s.received + 1,
                                 !.frames = (frameIndex :>
                                               SubSeq(votedBytes, 3, Len(votedBytes)))
                                            @@ s.frames]
                s3 == [s EXCEPT !.votes = (frameIndex :> <<>>) @@ s.votes]
            IN IF votedBytes[1] # frameIndex \/ votedBytes[2] # s.totalFrames
               THEN [st |-> s3, complete |-> FALSE, progress |-> progress(s3)]
               ELSE done(s2)
        Pushed(s1) ==
            IF Len(s1.votes[frameIndex]) < MIN_VOTES THEN done(s1)
            ELSE The({ Voted(s1, votedBytes) :
                         votedBytes \in { _dotsToBytes(voted) :
                                            voted \in { _majorityVote(s1.votes[frameIndex]) } } })
    IN The({ Pushed(s1) :
               s1 \in { [s EXCEPT !.votes = (frameIndex :> Append(old, dotValues)) @@ s.votes] } })

\* The vote step of addFrame: the capture joins its bucket and, from MIN_VOTES
\* captures on, the bucket is voted and the payload stored.
Accumulate(s, frameIndex, dotValues) ==
    LET old == IF frameIndex \in DOMAIN s.votes THEN s.votes[frameIndex] ELSE <<>>
        done(st) == The({ [st |-> st, complete |-> st.received >= st.totalFrames,
                           progress |-> p] : p \in { progress(st) } })
        Voted(s1, votedBytes) ==
            LET s2 == [s1 EXCEPT !.received = IF frameIndex \in DOMAIN s.frames
                                              THEN s.received ELSE s.received + 1,
                                 !.frames = (frameIndex :>
                                               SubSeq(votedBytes, 3, Len(votedBytes)))
                                            @@ s.frames]
                s3 == [s EXCEPT !.votes = (frameIndex :> <<>>) @@ s.votes]
            IN IF votedBytes[1] # frameIndex \/ votedBytes[2] # s.totalFrames
               THEN [st |-> s3, complete |-> FALSE, progress |-> progress(s3)]
               ELSE done(s2)
        Pushed(s1) ==
            IF Len(s1.votes[frameIndex]) < MIN_VOTES THEN done(s1)
            ELSE The({ Voted(s1, votedBytes) :
                         votedBytes \in { _dotsToBytes(voted) :
                                            voted \in { _majorityVote(s1.votes[frameIndex]) } } })
    IN The({ Pushed(s1) :
               s1 \in { [s EXCEPT !.votes = (frameIndex :> Append(old, dotValues)) @@ s.votes] } })

\* addFrame picking the plurality winner again on every capture.
addFrameRelock(s, dotValues) ==
    LET rawBytes == _dotsToBytes(dotValues)
        unchanged == [st |-> s, complete |-> FALSE, progress |-> progress(s)]
    IN IF Len(rawBytes) < 2 THEN unchanged
       ELSE IF ~HeaderOk(rawBytes[1], rawBytes[2]) THEN unchanged
       ELSE LET s1 == Tally(s, rawBytes[2])
                lock == LockDecision(s1.ftCounts, s1.ftTotal)
                s2 == [s1 EXCEPT !.totalFrames = lock]
            IN IF lock = null THEN [st |-> s1, complete |-> FALSE, progress |-> <<0, 1>>]
               ELSE IF rawBytes[2] # lock
               THEN [st |-> s2, complete |-> FALSE, progress |-> progress(s2)]
               ELSE Accumulate(s2, rawBytes[1], dotValues)

\* addFrame without the rejection of captures that disagree with the lock.
addFrameNoReject(s, dotValues) ==
    LET rawBytes == _dotsToBytes(dotValues)
        unchanged == [st |-> s, complete |-> FALSE, progress |-> progress(s)]
    IN IF Len(rawBytes) < 2 THEN unchanged
       ELSE IF ~HeaderOk(rawBytes[1], rawBytes[2]) THEN unchanged
       ELSE LET s1 == Tally(s, rawBytes[2])
                lock == IF s.totalFrames = null
                        THEN LockDecision(s1.ftCounts, s1.ftTotal)
                        ELSE s.totalFrames
                s2 == [s1 EXCEPT !.totalFrames = lock]
            IN IF lock = null THEN [st |-> s1, complete |-> FALSE, progress |-> <<0, 1>>]
               ELSE Accumulate(s2, rawBytes[1], dotValues)

\* Decoder.prototype.addFrame: the decoder after the call and what it returns.
addFrame(s, dotValues) ==
    LET unchanged == [st |-> s, complete |-> FALSE, progress |-> progress(s)]
        Locking(frameIndex, totalFrames, s1) ==
            LET lock == IF s.totalFrames = null
                        THEN LockDecision(s1.ftCounts, s1.ftTotal)
                        ELSE s.totalFrames
            IN IF lock = null THEN [st |-> s1, complete |-> FALSE, progress |-> <<0, 1>>]
               ELSE The({ IF totalFrames # s2.totalFrames
                          THEN [st |-> s2, complete |-> FALSE, progress |-> progress(s2)]
                          ELSE Accumulate(s2, frameIndex, dotValues) :
                            s2 \in { [s1 EXCEPT !.totalFrames = lock] } })
        Header(rawBytes) ==
            IF Len(rawBytes) < 2 THEN unchanged
            ELSE IF ~HeaderOk(rawBytes[1], rawBytes[2]) THEN unchanged
            ELSE The({ Locking(rawBytes[1], rawBytes[2], s1) :
                         s1 \in { Tally(s, rawBytes[2]) } })
    IN The({ Header(rawBytes) : rawBytes \in { _dotsToBytes(dotValues) } })

\* reassemble as it would be if it joined the payloads from the last index down.
reassembleDescending(s) ==
    LET RECURSIVE Chunks(_, _)
        Chunks(i, result) ==
            IF i >= s.totalFrames THEN result
            ELSE Chunks(i + 1, IF i \in DOMAIN s.frames
                               THEN s.frames[i] \o result ELSE result)
    IN IF s.totalFrames = null \/ s.totalFrames = 0 THEN <<>> ELSE Chunks(0, <<>>)

\* Decoder.prototype.reassemble
reassemble(s) ==
    LET RECURSIVE Chunks(_, _)
        Chunks(i, result) ==
            IF i >= s.totalFrames THEN result
            ELSE Chunks(i + 1, IF i \in DOMAIN s.frames
                               THEN result \o s.frames[i] ELSE result)
    IN IF s.totalFrames = null \/ s.totalFrames = 0 THEN <<>> ELSE Chunks(0, <<>>)

\* The scanner Decoder's fields as one record.
JsState ==
    [votes |-> _votes, frames |-> _frames, totalFrames |-> _totalFrames,
     received |-> _received, ftCounts |-> _ftCounts, ftTotal |-> _ftTotal]

\* ------------------------------------------------------------------ inputs

Pattern(n) == Array(n, LAMBDA k : (k * 37 + 11) % 256)

ShortPayloads == UNION { [1..n -> PayloadBytes] : n \in 1..MaxShortLen }

\* Payloads at the frame boundaries and at the protocol limit, and one past it.
LongPayloads(c) ==
    LET b == BytesPerFrame(c)
    IN { Pattern(n) : n \in {b + 1, 2 * b, 3 * b, MaxFrames * b - 1,
                              MaxFrames * b, MaxFrames * b + 1} }

Payloads(c) == ShortPayloads \cup LongPayloads(c)

Orders(n) == IF n <= MaxPermFrames THEN {"asc", "desc", "any"} ELSE {"asc", "desc"}

NumFrames == Len(txFrames)

Unfed == (0..(NumFrames - 1)) \ fed

NextIndices ==
    IF Unfed = {} THEN {}
    ELSE IF order = "asc" THEN { CHOOSE i \in Unfed : \A j \in Unfed : i <= j }
    ELSE IF order = "desc" THEN { CHOOSE i \in Unfed : \A j \in Unfed : i >= j }
    ELSE Unfed

NoRet == [done |-> FALSE, err |-> "nil", bytes |-> <<>>]

\* A scanner Decoder as constructed (and as reset() leaves it).
JsFresh ==
    /\ _votes = <<>>
    /\ _frames = <<>>
    /\ _totalFrames = null
    /\ _received = 0
    /\ _ftCounts = <<>>
    /\ _ftTotal = 0

\* A transform as deriveTransform returns it: the center in pixels, the scale
\* in pixels per pattern unit, the rotation.  The code holds floating-point
\* numbers and the rotation in radians; here they are integers and the
\* rotation is in degrees (the bottommost anchor keeps it within -60..60, so
\* it never wraps), which leaves the comparisons of _scan exact.
Transform(x, y, scale, rotation) ==
    [center |-> [x |-> x, y |-> y], scale |-> scale, rotation |-> rotation]

\* null, in a field that holds a transform (no derived transform has scale 0).
NoTransform == Transform(0, 0, 0, 0)

\* A DotbeamScanner as constructed.
ScanFresh ==
    /\ _running = FALSE
    /\ _cachedTransform = NoTransform
    /\ _dbgTransform = NoTransform
    /\ _dbgStatus = "waiting"

\* The JS library's Encoder before encode and its Decoder as constructed.
LibFresh ==
    /\ lib_txFrames = <<>>
    /\ lib_frames = <<>>
    /\ lib_total = 0
    /\ lib_received = 0

\* No dot has been classified yet.
NoSample == <<0, 0, 0>>

\* The camera side of a DotbeamScanner as constructed: nothing acquired,
\* nothing scheduled.
CamFresh ==
    /\ _stream = null
    /\ _rafId = null
    /\ srcObject = null
    /\ acquiring = {}
    /\ liveStreams = {}
    /\ metaListeners = {}
    /\ rafQueue = {}
    /\ starts = 0

\* ------------------------------------------------------------------ actions

\* NewEncoder(config), NewDecoder(config), and a payload to send.
Init ==
    /\ config \in Configs
    /\ data \in Payloads(config)
    /\ txFrames = <<>>
    /\ encoded = FALSE
    /\ order = "asc"
    /\ fed = {}
    /\ frames = <<>>
    /\ total = 0
    /\ received = 0
    /\ noise = {}
    /\ _currentFrameIndex = 0
    /\ JsFresh
    /\ ScanFresh
    /\ CamFresh
    /\ sample = NoSample
    /\ LibFresh
    /\ lastOp = "New"
    /\ ret = NoRet

\* frames := enc.Encode(data); the caller then picks the order it feeds them in.
GoEncode ==
    /\ ~encoded
    /\ txFrames' = Encode(config, data)
    /\ encoded' = TRUE
    /\ order' \in Orders(Len(txFrames'))
    /\ lastOp' = "Encode"
    /\ ret' = NoRet
    /\ UNCHANGED <<libVars, sample, camVars, scanVars, config, data, noise, _currentFrameIndex, fed, frames, total, received, jsVars>>

\* dec.AddFrame(dots)
GoAddFrame(dots) ==
    \E r \in { AddFrameStep(config, dots, frames, total, received) } :
       /\ frames' = r.frames
       /\ total' = r.total
       /\ received' = r.received
       /\ lastOp' = "AddFrame"
       /\ ret' = [done |-> r.done, err |-> r.err, bytes |-> <<>>]

\* The caller feeds the next frame of the transmission.
FeedFrame ==
    /\ encoded
    /\ \E i \in NextIndices :
          /\ GoAddFrame(txFrames[i + 1].Dots)
          /\ fed' = fed \cup {i}
    /\ UNCHANGED <<libVars, sample, camVars, scanVars, txVars, jsVars>>

\* The caller feeds a frame it has fed before.
FeedDuplicate ==
    /\ encoded
    /\ order = "any"
    /\ \E i \in fed : GoAddFrame(txFrames[i + 1].Dots)
    /\ UNCHANGED <<libVars, sample, camVars, scanVars, txVars, fed, jsVars>>

\* dec.Data()
GoData ==
    /\ lastOp # "Data"
    /\ lastOp' = "Data"
    /\ ret' = [done |-> FALSE] @@ Data(frames, total, received)
    /\ UNCHANGED <<libVars, sample, camVars, scanVars, txVars, fed, goVars, jsVars>>

\* dec.Reset()
GoReset ==
    /\ lastOp \in {"AddFrame", "Data"}
    /\ frames' = <<>>
    /\ total' = 0
    /\ received' = 0
    /\ fed' = {}
    /\ lastOp' = "Reset"
    /\ ret' = NoRet
    /\ UNCHANGED <<libVars, sample, camVars, scanVars, txVars, jsVars>>

NextGo == GoEncode \/ FeedFrame \/ FeedDuplicate \/ GoData \/ GoReset

SpecGo == Init /\ [][NextGo]_vars

\* The caller feeds dot values of its own making.
AnyHeaders == { <<i, t>> : i \in 0..2, t \in 0..3 }

AnyDots(c) ==
    { bytesToDots(c, h \o Array(BytesPerFrame(c), LAMBDA k : b)) :
        h \in AnyHeaders, b \in {0, 255} }
    \cup { <<>>, <<1>> }

InitGoAny ==
    /\ config \in Configs
    /\ data = Pattern(1)
    /\ txFrames = <<>>
    /\ encoded = FALSE
    /\ order = "any"
    /\ fed = {}
    /\ frames = <<>>
    /\ total = 0
    /\ received = 0
    /\ noise = {}
    /\ _currentFrameIndex = 0
    /\ JsFresh
    /\ ScanFresh
    /\ CamFresh
    /\ sample = NoSample
    /\ LibFresh
    /\ lastOp = "New"
    /\ ret = NoRet

FeedAny ==
    /\ \E dots \in AnyDots(config) : GoAddFrame(dots)
    /\ UNCHANGED <<libVars, sample, camVars, scanVars, txVars, fed, jsVars>>

NextGoAny == FeedAny \/ GoData \/ GoReset

SpecGoAny == InitGoAny /\ [][NextGoAny]_vars

\* The transmitted payload, zero-padded to whole frames.
PaddedPayload ==
    data \o Zeros(NumFrames * BytesPerFrame(config) - Len(data))

\* What Data() returns after the frames were fed in ascending order.
InOrderData ==
    LET RECURSIVE Feed(_, _, _)
        Feed(lo, hi, d) ==
            IF lo > hi THEN d
            ELSE IF lo = hi
                 THEN AddFrameStep(config, txFrames[lo].Dots, d.frames, d.total, d.received)
                 ELSE LET half == Feed(lo, (lo + hi) \div 2, d)
                      IN IF half.received >= 0
                         THEN Feed(((lo + hi) \div 2) + 1, hi, half)
                         ELSE half
        end == Feed(1, NumFrames, [frames |-> <<>>, total |-> 0, received |-> 0])
    IN Data(end.frames, end.total, end.received)

AllFed == encoded /\ fed = 0..(NumFrames - 1)

\* C1: round trip.  After every frame of Encode(P) was fed to a fresh decoder,
\* Data() returns no error and bytes that start with P, and that equal P when
\* len(P) is a multiple of BytesPerFrame, for 0 < len(P) <= 255 * BytesPerFrame.
C1_RoundTrip ==
    (/\ lastOp = "Data"
     /\ AllFed
     /\ 0 < Len(data)
     /\ Len(data) <= MaxFrames * BytesPerFrame(config))
    => /\ ret.err = "nil"
       /\ IsPrefix(data, ret.bytes)
       /\ (Len(data) % BytesPerFrame(config) = 0 => ret.bytes = data)

\* A payload at the protocol limit has come back whole.
C1_Witness ==
    /\ lastOp = "Data"
    /\ AllFed
    /\ NumFrames = MaxFrames
    /\ Len(data) = MaxFrames * BytesPerFrame(config)
    /\ ret.bytes = data

\* C8: out-of-order delivery.  For a multi-frame payload fed in any order,
\* AddFrame reports completion exactly when no index is missing any more, and
\* the reassembled bytes are those of in-order delivery.
C8_OutOfOrder ==
    (lastOp = "AddFrame" /\ NumFrames >= 2)
    => /\ (ret.done <=> AllFed)
       /\ (AllFed => Data(frames, total, received) = InOrderData)

\* Three frames fed last index first have completed.
C8_Witness ==
    /\ lastOp = "AddFrame"
    /\ order = "desc"
    /\ NumFrames = 3
    /\ ret.done
    /\ Data(frames, total, received).bytes = PaddedPayload

\* C9: whenever AddFrame returns (true, nil), an immediately following Data()
\* returns the reassembled bytes and not ErrIncompleteData.
C9_DoneMeansData ==
    (lastOp = "AddFrame" /\ ret.done /\ ret.err = "nil")
    => Data(frames, total, received).err = "nil"

\* Every frame of the transmission is stored in the decoder.
AllReceived ==
    /\ encoded
    /\ NumFrames > 0
    /\ \A i \in 0..(NumFrames - 1) : i \in DOMAIN frames

\* C10: Data() returns ErrIncompleteData and no bytes in every state in which
\* not all frames of the transmission have been received, a new or reset
\* decoder included.
C10_IncompleteRefused ==
    ~AllReceived
    => Data(frames, total, received) = [bytes |-> <<>>, err |-> "ErrIncompleteData"]

\* ------------------------------------------------- the scanner's channel

\* The layout the scanner samples: DotbeamCore.defaultConfig() has 4 rings of
\* 3-bit dots; 2 rings (18 dots, 6 bytes, 4 of them payload) keep the frames small.
ScannerConfig == [Rings |-> 2, BitsPerDot |-> 3]

\* A misread replaces the dots at the positions of n by n's values.
Misread(dots, n) ==
    Array(Len(dots), LAMBDA k : IF k \in DOMAIN n THEN n[k] ELSE dots[k])

\* Dot 3 carries the two low bits of the frame index and the top bit of the
\* frame total, dots 4 and 5 and the first bit of dot 6 the rest of the total,
\* dot 7 three bits of the first payload byte.
TotalNoise == { (5 :> v) : v \in 1..4 }
PayloadNoise == { (7 :> 1), (7 :> 2) }
TotalDownNoise == { (5 :> 0) @@ (6 :> 4) }
Malformed == { (3 :> 2), (3 :> 1) @@ (4 :> 5), (5 :> 0) @@ (6 :> 0) }

\* What is transmitted and what the channel may do to it: a one-frame payload
\* whose total is misread as 3, 5, 7 or 9; a one-frame payload with payload
\* misreads and malformed headers (index 1 of 1, total 209, total 0); a
\* two-frame payload with frame 0's payload misread; one with frame 0 read
\* as frame 1; one with the total read as 1.
Scenarios ==
    { [data |-> Pattern(3), noise |-> TotalNoise],
      [data |-> Pattern(3), noise |-> PayloadNoise \cup Malformed],
      [data |-> Pattern(6), noise |-> { (7 :> 0) }],
      [data |-> Pattern(6), noise |-> { (3 :> 2) }],
      [data |-> Pattern(6), noise |-> TotalDownNoise] }

\* Every dot-value array one capture can deliver.
Captures ==
    { Misread(txFrames[k].Dots, n) : k \in 1..Len(txFrames), n \in noise \cup {<<>>} }

\* Captures tallied beyond those a noiseless scan needs to complete.
MaxExtra == 0
\* Captures tallied on the channel that misreads the total four ways.
LockCaptures == 12
\* Captures kept for one frame index.
MaxBucket == 6

MaxCaptures ==
    IF noise = TotalNoise THEN LockCaptures
    ELSE FT_SETTLE_MIN - 1 + MIN_VOTES * NumFrames + MaxExtra

\* The bucket the capture would join holds fewer than MaxBucket captures.
BucketRoom(dotValues) ==
    \A rawBytes \in { _dotsToBytes(dotValues) } :
       Len(rawBytes) >= 2 /\ rawBytes[1] \in DOMAIN _votes
          => Len(_votes[rawBytes[1]]) < MaxBucket

\* Transmissions of 1, 2 and 3 frames, and of 201 and 255 frames.
FairPayloads == { Pattern(4 * n - 1) : n \in {1, 2, 3, 201, MaxFrames} }

\* ------------------------------------------------- scanner Decoder actions

\* A scan session: the frames on screen, a channel, a new scanner Decoder.
InitJs ==
    /\ config = ScannerConfig
    /\ \E sc \in Scenarios :
          /\ data = sc.data
          /\ noise = sc.noise
    /\ _currentFrameIndex = 0
    /\ txFrames = Encode(config, data)
    /\ encoded = TRUE
    /\ order = "asc"
    /\ fed = {}
    /\ frames = <<>>
    /\ total = 0
    /\ received = 0
    /\ JsFresh
    /\ ScanFresh
    /\ CamFresh
    /\ sample = NoSample
    /\ LibFresh
    /\ lastOp = "New"
    /\ ret = NoRet

\* decoder.addFrame(dotValues)
JsAddFrame(dotValues) ==
    \E r \in { addFrame(JsState, dotValues) } :
       /\ _votes' = r.st.votes
       /\ _frames' = r.st.frames
       /\ _totalFrames' = r.st.totalFrames
       /\ _received' = r.st.received
       /\ _ftCounts' = r.st.ftCounts
       /\ _ftTotal' = r.st.ftTotal
       /\ lastOp' = "addFrame"
       /\ ret' = [complete |-> r.complete, progress |-> r.progress]

\* One scan tick reads the pattern and feeds the decoder.
Capture ==
    /\ _ftTotal < MaxCaptures
    /\ \E dotValues \in Captures :
          /\ BucketRoom(dotValues)
          /\ JsAddFrame(dotValues)
    /\ UNCHANGED <<libVars, sample, camVars, scanVars, txVars, fed, goVars>>

\* reset() as it would be if it kept the frame-total tally.
JsResetKeepsTally ==
    /\ lastOp = "addFrame"
    /\ _votes' = <<>>
    /\ _frames' = <<>>
    /\ _totalFrames' = null
    /\ _received' = 0
    /\ UNCHANGED <<_ftCounts, _ftTotal>>
    /\ lastOp' = "reset"
    /\ ret' = NoRet
    /\ UNCHANGED <<libVars, sample, camVars, scanVars, txVars, fed, goVars>>

\* decoder.reset()
JsReset ==
    /\ lastOp = "addFrame"
    /\ _votes' = <<>>
    /\ _frames' = <<>>
    /\ _totalFrames' = null
    /\ _received' = 0
    /\ _ftCounts' = <<>>
    /\ _ftTotal' = 0
    /\ lastOp' = "reset"
    /\ ret' = NoRet
    /\ UNCHANGED <<libVars, sample, camVars, scanVars, txVars, fed, goVars>>

Next == Capture \/ JsReset

Spec == InitJs /\ [][Next]_vars

\* A scan session over a noiseless channel.
InitFair ==
    /\ config = ScannerConfig
    /\ data \in FairPayloads
    /\ noise = {}
    /\ _currentFrameIndex = 0
    /\ txFrames = Encode(config, data)
    /\ encoded = TRUE
    /\ order = "asc"
    /\ fed = {}
    /\ frames = <<>>
    /\ total = 0
    /\ received = 0
    /\ JsFresh
    /\ ScanFresh
    /\ CamFresh
    /\ sample = NoSample
    /\ LibFresh
    /\ lastOp = "New"
    /\ ret = NoRet

\* The scanner captures the frame on screen, noiselessly, and the renderer
\* advances to the next frame of the loop.
CaptureShown ==
    /\ BucketRoom(txFrames[_currentFrameIndex + 1].Dots)
    /\ JsAddFrame(txFrames[_currentFrameIndex + 1].Dots)
    /\ _currentFrameIndex' = (_currentFrameIndex + 1) % Len(txFrames)
    /\ UNCHANGED <<libVars, sample, camVars, scanVars, config, data, txFrames, encoded, order, noise, fed, goVars>>

NextFair == CaptureShown

\* The animation loops and the scanner keeps capturing it, so every frame
\* index is captured again and again.
SpecFair == InitFair /\ [][NextFair]_vars /\ WF_vars(CaptureShown)

\* ------------------------------------------------ _majorityVote on its own

\* Captures of two dots; at each position the palette's first, second and
\* last index occur.
VoteCaptures == { <<0, 0>>, <<1, 7>>, <<7, 0>>, <<7, 1>> }
MaxVoteCaptures == 6

InitVote ==
    /\ config = ScannerConfig
    /\ data = <<>>
    /\ txFrames = <<>>
    /\ encoded = FALSE
    /\ order = "asc"
    /\ fed = {}
    /\ frames = <<>>
    /\ total = 0
    /\ received = 0
    /\ noise = {}
    /\ _currentFrameIndex = 0
    /\ JsFresh
    /\ ScanFresh
    /\ CamFresh
    /\ sample = NoSample
    /\ LibFresh
    /\ lastOp = "New"
    /\ ret = NoRet

\* One more capture joins bucket 0.
PushCapture ==
    /\ \E c \in VoteCaptures :
          LET old == IF 0 \in DOMAIN _votes THEN _votes[0] ELSE <<>>
          IN /\ Len(old) < MaxVoteCaptures
             /\ _votes' = (0 :> Append(old, c))
    /\ lastOp' = "push"
    /\ ret' = NoRet
    /\ UNCHANGED <<libVars, sample, camVars, scanVars, txVars, fed, goVars, _frames, _totalFrames, _received, _ftCounts, _ftTotal>>

\* this._majorityVote(this._votes[0])
Vote ==
    /\ lastOp = "push"
    /\ ret' = [voted |-> _majorityVote(_votes[0])]
    /\ lastOp' = "_majorityVote"
    /\ UNCHANGED <<libVars, sample, camVars, scanVars, txVars, fed, goVars, jsVars>>

NextVote == PushCapture \/ Vote

SpecVote == InitVote /\ [][NextVote]_vars

\* ----------------------------------------------- scanner Decoder properties

\* More than half of the captures carry value v at dot position d.
HasMajority(captures, d, v) ==
    2 * Cardinality({ c \in 1..Len(captures) : captures[c][d] = v }) > Len(captures)

\* At every dot position more than half of the captures carry dots' value.
MajorityCarries(captures, dots) ==
    \A d \in 1..Len(dots) : HasMajority(captures, d, dots[d])

\* The highest count of the frame-total tally.
TallyMax ==
    IF _ftCounts = <<>> THEN 0
    ELSE CHOOSE m \in { _ftCounts[k] : k \in DOMAIN _ftCounts } :
            \A k \in DOMAIN _ftCounts : _ftCounts[k] <= m

Complete == lastOp = "addFrame" /\ ret.complete

\* C2 as stated: whatever was captured, if the decoder reports complete then
\* the reassembled bytes are the transmitted payload, zero-padded to whole frames.
C2_NeverWrong ==
    Complete => reassemble(JsState) = PaddedPayload

\* C2: if the decoder reports complete, the locked total is the transmitted
\* total, and in every frame's bucket more than half of the captures carry the
\* transmitted value at every dot position, then the reassembled bytes are the
\* transmitted payload, zero-padded to whole frames.
C2_MajorityRight ==
    (/\ Complete
     /\ _totalFrames = NumFrames
     /\ \A i \in 0..(NumFrames - 1) :
           i \in DOMAIN _votes /\ MajorityCarries(_votes[i], txFrames[i + 1].Dots))
    => reassemble(JsState) = PaddedPayload

\* A two-frame payload is complete and right although frame 0's bucket holds
\* misread captures.
C2_Witness ==
    /\ Complete
    /\ NumFrames = 2
    /\ _totalFrames = NumFrames
    /\ \E c \in 1..Len(_votes[0]) : _votes[0][c] # txFrames[1].Dots
    /\ \A i \in 0..1 : MajorityCarries(_votes[i], txFrames[i + 1].Dots)
    /\ reassemble(JsState) = PaddedPayload

\* C3: once a total-frame count is locked, no later capture changes it; it
\* stays the same in every step that is not reset().
C3_LockStable ==
    [][(_totalFrames # null /\ lastOp' # "reset") => _totalFrames' = _totalFrames]_vars

\* The total was locked at the tenth capture (at eleven the tally cannot reach
\* 30% for the first time), and neither that capture nor the eleventh, which
\* left the lock as it was, reported the locked total: no bucket exists.
C3_Witness ==
    /\ noise = TotalNoise
    /\ lastOp = "addFrame"
    /\ _totalFrames # null
    /\ _ftTotal = FT_SETTLE_MIN + 1
    /\ _votes = <<>>

\* C4: a step locks the total only into a state in which at least 10 captures
\* are tallied and the highest count is at least 30% of the tally, and the
\* locked value has the highest count; a decoder that is still unlocked after
\* addFrame has fewer than 10 captures tallied or no value at 30%, and a capture
\* that changed it was added to the tally and to nothing else.
C4_LockQuorum ==
    [][lastOp' = "addFrame" =>
         /\ (_totalFrames = null /\ _totalFrames' # null)
            => /\ _ftTotal' >= FT_SETTLE_MIN
               /\ 10 * TallyMax' >= 3 * _ftTotal'
               /\ _totalFrames' \in DOMAIN _ftCounts'
               /\ _ftCounts'[_totalFrames'] = TallyMax'
         /\ _totalFrames' = null
            => /\ _ftTotal' < FT_SETTLE_MIN \/ 10 * TallyMax' < 3 * _ftTotal'
               /\ jsVars' # jsVars
                  => /\ _ftTotal' = _ftTotal + 1
                     /\ <<_votes, _frames, _received>>' = <<_votes, _frames, _received>>
      ]_vars

\* The total was locked by the tenth capture on a plurality of exactly 30%.
C4_Witness ==
    /\ lastOp = "addFrame"
    /\ _totalFrames # null
    /\ _ftTotal = FT_SETTLE_MIN
    /\ TallyMax = 3
    /\ _ftCounts[_totalFrames] = 3

\* The captures the channel can deliver whose header passes the sanity checks
\* and reports another total than the locked one.
OtherTotalCaptures ==
    { dv \in Captures :
        LET rawBytes == _dotsToBytes(dv)
        IN /\ Len(rawBytes) >= 2
           /\ HeaderOk(rawBytes[1], rawBytes[2])
           /\ rawBytes[2] # _totalFrames }

\* C5 as stated: once the total is locked, a capture reporting a different
\* total changes nothing: not the tally, nor any vote bucket, stored payload or
\* the received count.
C5_NotRetallied ==
    _totalFrames # null
    => \A dv \in OtherTotalCaptures : addFrame(JsState, dv).st = JsState

\* C5: once the total is locked, a capture reporting a different total changes
\* neither the lock nor any vote bucket, stored payload or the received count,
\* and is not reported complete; the tally alone counts it, under the total it
\* reports.
C5_Discarded ==
    _totalFrames # null
    => \A dv \in OtherTotalCaptures :
          LET r == addFrame(JsState, dv)
              ft == _dotsToBytes(dv)[2]
          IN /\ r.st.totalFrames = _totalFrames
             /\ r.st.votes = _votes
             /\ r.st.frames = _frames
             /\ r.st.received = _received
             /\ ~r.complete
             /\ r.st.ftTotal = _ftTotal + 1
             /\ r.st.ftCounts = (ft :> (IF ft \in DOMAIN _ftCounts
                                        THEN _ftCounts[ft] ELSE 0) + 1) @@ _ftCounts

\* On the channel that reads total 2 as 1 the lock falls at the tenth capture;
\* that capture and the eleventh reported the other total and no bucket exists.
C5_Witness ==
    /\ noise = TotalDownNoise
    /\ lastOp = "addFrame"
    /\ _totalFrames # null
    /\ _ftTotal = FT_SETTLE_MIN + 1
    /\ _votes = <<>>
    /\ OtherTotalCaptures # {}

\* C6: for 5 or more captures of equal length, at every dot position at which
\* more than half of the captures carry the same value, _majorityVote returns
\* that value.
C6_MajorityVote ==
    (lastOp = "_majorityVote" /\ Len(_votes[0]) >= MIN_VOTES)
    => \A d \in 1..Len(_votes[0][1]) : \A v \in 0..7 :
          HasMajority(_votes[0], d, v) => ret.voted[d] = v

\* Five captures, a majority at both positions, at one of them with exactly
\* two captures in the minority, and the vote returned the majority values.
C6_Witness ==
    /\ lastOp = "_majorityVote"
    /\ Len(_votes[0]) = MIN_VOTES
    /\ \A d \in 1..2 : HasMajority(_votes[0], d, ret.voted[d])
    /\ \E d \in 1..2 :
          Cardinality({ c \in 1..MIN_VOTES : _votes[0][c][d] # ret.voted[d] }) = 2

\* C7: with noiseless captures and every frame index captured again and again,
\* the decoder eventually has the true total locked and reports complete with
\* the transmitted payload, for every transmission of 1 to 255 frames.
C7_EventuallyComplete ==
    <>(/\ Complete
       /\ _totalFrames = NumFrames
       /\ reassemble(JsState) = PaddedPayload)

\* ------------------------------------------------- final bytes of the scanner

\* Some frame index below the locked total has no stored payload, or no total
\* is locked.
Incomplete ==
    \/ _totalFrames = null
    \/ \E i \in 0..(_totalFrames - 1) : i \notin DOMAIN _frames

\* C11: the scanner Decoder hands out no partial data: in a state where no
\* total is locked or some frame index below the total has not been received,
\* reassemble() gives no payload byte (read at its weakest: reassemble() has no
\* incomplete result at all, it always returns a buffer).
C11_NoPartialData ==
    Incomplete => reassemble(JsState) = <<>>

\* ------------------------------------------------- header validation

\* The header the dots decode to is not that of a frame: fewer than 2 bytes,
\* a frame total of 0, or a frame index not below the frame total.
BadHeader(c, dots) ==
    \A bytes \in { AddFrameData(c, dots) } :
       \/ Len(bytes) < 2
       \/ bytes[2] = 0
       \/ bytes[1] >= bytes[2]

\* C12: in every state, AddFrame answers every frame whose header is not that
\* of a frame (index >= total, total 0, fewer than 2 bytes) with
\* ErrInvalidFrame and stores nothing.
C12_HeaderValidated ==
    \A dots \in AnyDots(config) :
       BadHeader(config, dots)
       => \A r \in { AddFrameStep(config, dots, frames, total, received) } :
             /\ r.err = "ErrInvalidFrame"
             /\ r.frames = frames

\* ------------------------------------------------- both decoders, one channel

\* A one-frame transmission read over a channel that delivers the frame as
\* sent or with a header that is not a frame's (index 1 of 1, total 209,
\* total 0); the Go Decoder and the scanner Decoder are both fed its captures.
InitBoth ==
    /\ config = ScannerConfig
    /\ data = Pattern(3)
    /\ noise = Malformed
    /\ _currentFrameIndex = 0
    /\ txFrames = Encode(config, data)
    /\ encoded = TRUE
    /\ order = "any"
    /\ fed = {}
    /\ frames = <<>>
    /\ total = 0
    /\ received = 0
    /\ JsFresh
    /\ ScanFresh
    /\ CamFresh
    /\ sample = NoSample
    /\ LibFresh
    /\ lastOp = "New"
    /\ ret = NoRet

\* What the Go Decoder may be handed: a capture, or no dots at all.
GoCaptures == Captures \cup { <<>> }

\* dec.AddFrame(dots) on a capture.
FeedCapture ==
    /\ \E dots \in GoCaptures : GoAddFrame(dots)
    /\ UNCHANGED <<libVars, sample, camVars, scanVars, txVars, fed, jsVars>>

NextBoth == FeedCapture \/ GoReset \/ Capture \/ JsReset

SpecBoth == InitBoth /\ [][NextBoth]_vars

\* addFrame's sanity checks turn the capture away (scanner.js:1551-1557).
JsMalformed(dotValues) ==
    \A rawBytes \in { _dotsToBytes(dotValues) } :
       \/ Len(rawBytes) < 2
       \/ ~HeaderOk(rawBytes[1], rawBytes[2])

\* C13: a frame rejected as malformed has no effect.  In every state, for
\* every frame either decoder can be handed: if the Go Decoder answers
\* ErrInvalidFrame then frames, total, received and Progress() are what they
\* were; if the scanner Decoder's sanity checks turn the capture away then
\* tally, lock, vote buckets, stored payloads and received are what they were
\* and the progress it reports is the progress before the call.
C13_RejectedNoEffect ==
    /\ \A dots \in GoCaptures :
          \A r \in { AddFrameStep(config, dots, frames, total, received) } :
             r.err = "ErrInvalidFrame"
             => /\ <<r.frames, r.total, r.received>> = goVars
                /\ Progress(r.total, r.received) = Progress(total, received)
    /\ \A dotValues \in Captures :
          JsMalformed(dotValues)
          => \A r \in { addFrame(JsState, dotValues) } :
                /\ r.st = JsState
                /\ r.progress = progress(JsState)

\* A rejected AddFrame on a Go Decoder that holds a frame, while the scanner
\* Decoder, with a total locked and a vote bucket open, can be handed a
\* malformed capture.
C13_Witness ==
    /\ lastOp = "AddFrame"
    /\ ret.err = "ErrInvalidFrame"
    /\ received > 0
    /\ _totalFrames # null
    /\ _votes # <<>>
    /\ \E dotValues \in Captures : JsMalformed(dotValues)

\* ------------------------------------------------- totals up to 255

\* C14: every capture whose header has a frame total in 1..255 and a frame
\* index below it is accepted: in every state of a noiseless scan of a
\* transmission of 1 to 255 frames, addFrame tallies the capture of the frame
\* on screen.
C14_AllTotalsAccepted ==
    \A shown \in { txFrames[_currentFrameIndex + 1] } :
       (shown.Total \in 1..MaxFrames /\ shown.Index < shown.Total)
       => addFrame(JsState, shown.Dots).st.ftTotal = _ftTotal + 1

\* ------------------------------------------------- vote buckets

\* The payload a bucket's captures vote for.
VotedPayload(captures) ==
    The({ SubSeq(votedBytes, 3, Len(votedBytes)) :
            votedBytes \in { _dotsToBytes(_majorityVote(captures)) } })

\* C15 as stated: no vote bucket ever holds more than MIN_VOTES captures.
C15_VoteCap ==
    \A i \in DOMAIN _votes : Len(_votes[i]) <= MIN_VOTES

\* C15, amended: MIN_VOTES is a threshold and not a cap.  A payload is stored
\* for a frame index only when its bucket holds at least MIN_VOTES captures,
\* buckets keep growing with every accepted capture, and the stored payload is
\* always the vote over all the captures of the bucket.
C15_VoteThreshold ==
    \A i \in DOMAIN _frames :
       /\ i \in DOMAIN _votes
       /\ Len(_votes[i]) >= MIN_VOTES
       /\ _frames[i] = VotedPayload(_votes[i])

\* A bucket of more than MIN_VOTES captures whose payload, voted again on the
\* last capture, is no longer what its first MIN_VOTES captures voted for.
C15_Witness ==
    \E i \in DOMAIN _frames :
       /\ Len(_votes[i]) > MIN_VOTES
       /\ _frames[i] # VotedPayload(SubSeq(_votes[i], 1, MIN_VOTES))

\* ------------------------------------------------- vote contamination

\* Frame 0 as read by the channel that turns its index into 1.
Strayed == Misread(txFrames[1].Dots, (3 :> 2))

\* C16: vote contamination recovery.  After the lock, with 3 noiseless
\* captures of frame 0 accumulated and one capture of frame 0 already read
\* under another frame index, the second such capture makes the decoder
\* discard the bucket of frame 0 (its accumulation restarts), and no payload
\* is stored for frame 0.
C16_ContaminationDiscarded ==
    [][(/\ noise = { (3 :> 2) }
        /\ _totalFrames # null
        /\ _ftTotal = FT_SETTLE_MIN + 3
        /\ 0 \in DOMAIN _votes /\ 1 \in DOMAIN _votes
        /\ _votes[0] = << txFrames[1].Dots, txFrames[1].Dots, txFrames[1].Dots >>
        /\ _votes[1] = << Strayed >>
        /\ lastOp' = "addFrame"
        /\ _votes'[1] = << Strayed, Strayed >>)
       => /\ _votes'[0] = <<>>
          /\ 0 \notin DOMAIN _frames']_vars

\* ------------------------------------------------- completion and reassembly

\* Every frame index below the locked total has a stored payload.
AllStored == _totalFrames # null /\ _received = _totalFrames

Accepted(dotValues, st) ==
    /\ ~JsMalformed(dotValues)
    /\ st.totalFrames # null
    /\ _dotsToBytes(dotValues)[2] = st.totalFrames

Steady == Transform(100, 100, 100, 0)
Transforms ==
    { Steady,
      Transform(110, 100, 100, 0),
      Transform(109, 112, 100, 0),
      Transform(100, 100, 120, 0),
      Transform(100, 100, 100, 15),
      Transform(100, 100, 119, 14) }

\* findWhiteBlobs returns fewer than 3 blobs, or at least 3.
BlobCounts == { 2, 3 }

Abs(n) == IF n < 0 THEN 0 - n ELSE n

\* The drift test with the limits themselves let through.
DriftOkInclusive(freshTransform, cached) ==
    LET cdx == freshTransform.center.x - cached.center.x
        cdy == freshTransform.center.y - cached.center.y
        scaleDrift == Abs(freshTransform.scale - cached.scale)
        rotDrift == Abs(freshTransform.rotation - cached.rotation)
    IN /\ 400 * (cdx * cdx + cdy * cdy) <= 9 * cached.scale * cached.scale
       /\ 5 * scaleDrift <= cached.scale
       /\ rotDrift <= 15

\* centerDrift < maxCenterDrift && scaleDrift < maxScaleDrift &&
\* rotDrift < maxRotDrift, with sqrt(cdx^2 + cdy^2) < scale * 0.15 squared and
\* scaled by 400, and scaleDrift < scale * 0.20 scaled by 5.
DriftOk(freshTransform, cached) ==
    LET cdx == freshTransform.center.x - cached.center.x
        cdy == freshTransform.center.y - cached.center.y
        scaleDrift == Abs(freshTransform.scale - cached.scale)
        rotDrift == Abs(freshTransform.rotation - cached.rotation)
    IN /\ 400 * (cdx * cdx + cdy * cdy) < 9 * cached.scale * cached.scale
       /\ 5 * scaleDrift < cached.scale
       /\ rotDrift < 15

\* Deriving the transform without the fallback to the cache.
ChooseTransformNoFallback(cached, blobs, derived) ==
    LET freshTransform == IF blobs >= 3 THEN derived ELSE NoTransform
    IN IF freshTransform # NoTransform /\ cached # NoTransform
       THEN IF DriftOk(freshTransform, cached)
            THEN [transform |-> freshTransform, cached |-> freshTransform]
            ELSE [transform |-> cached, cached |-> cached]
       ELSE [transform |-> freshTransform, cached |-> cached]

\* "Derive or reuse transform": the transform the tick samples with, and the
\* cache as this part of _scan leaves it.
ChooseTransform(cached, blobs, derived) ==
    LET freshTransform == IF blobs >= 3 THEN derived ELSE NoTransform
    IN IF freshTransform # NoTransform /\ cached # NoTransform
       THEN IF DriftOk(freshTransform, cached)
            THEN [transform |-> freshTransform, cached |-> freshTransform]
            ELSE [transform |-> cached, cached |-> cached]
       ELSE IF freshTransform # NoTransform
       THEN [transform |-> freshTransform, cached |-> cached]
       ELSE [transform |-> cached, cached |-> cached]

\* The cache taking the tick's transform whatever the header.
CacheRegardless(headerValid, cached, transform) ==
    IF cached = NoTransform THEN transform ELSE cached

\* if (headerValid && !this._cachedTransform) this._cachedTransform = transform
CacheKnownGood(headerValid, cached, transform) ==
    IF headerValid /\ cached = NoTransform THEN transform ELSE cached

\* The header check of _scan.
headerValid(rawBytes) ==
    /\ Len(rawBytes) >= 2
    /\ rawBytes[2] > 0
    /\ rawBytes[2] <= MAX_TOTAL_FRAMES
    /\ rawBytes[1] < rawBytes[2]

\* The scanner's fields as one record.
ScanState ==
    [running |-> _running, cachedTransform |-> _cachedTransform,
     dbgTransform |-> _dbgTransform, dbgStatus |-> _dbgStatus, decoder |-> JsState]

\* No callback was called.
NoCallbacks == [fired |-> {}, progress |-> <<0, 1>>, text |-> <<>>]

\* _scan leaving the scanner running when the decoder reports complete.
_scanStaysRunning(sc, blobs, derived, dotValues) ==
    LET pick == ChooseTransform(sc.cachedTransform, blobs, derived)
        Sampled(valid) ==
            LET cached == CacheKnownGood(valid, pick.cached, pick.transform)
            IN IF valid
               THEN The({ [sc |-> [running |-> sc.running,
                                   cachedTransform |-> cached,
                                   dbgTransform |-> pick.transform,
                                   dbgStatus |-> "decoded",
                                   decoder |-> r.st],
                           fired |-> IF r.complete THEN {"onProgress", "onComplete"}
                                     ELSE {"onProgress"},
                           progress |-> r.progress,
                           text |-> IF r.complete THEN reassemble(r.st) ELSE <<>>] :
                            r \in { addFrame(sc.decoder, dotValues) } })
               ELSE [NoCallbacks EXCEPT !.fired = {}] @@
                    [sc |-> [sc EXCEPT !.cachedTransform = cached,
                                       !.dbgTransform = pick.transform,
                                       !.dbgStatus = "bad-header"]]
    IN IF pick.transform = NoTransform
       THEN NoCallbacks @@
            [sc |-> [sc EXCEPT !.dbgTransform = NoTransform,
                               !.dbgStatus = IF blobs < 3 THEN "no-blobs"
                                             ELSE "no-triangle"]]
       ELSE The({ Sampled(valid) : valid \in { headerValid(_dotsToBytes(dotValues)) } })

\* DotbeamScanner.prototype._scan on a video frame in which findWhiteBlobs
\* finds `blobs` blobs, deriveTransform would derive `derived`, and the dots
\* sample as dotValues: the scanner after the tick and the callbacks called.
_scan(sc, blobs, derived, dotValues) ==
    LET pick == ChooseTransform(sc.cachedTransform, blobs, derived)
        Sampled(valid) ==
            LET cached == CacheKnownGood(valid, pick.cached, pick.transform)
            IN IF valid
               THEN The({ [sc |-> [running |-> sc.running /\ ~r.complete,
                                   cachedTransform |-> cached,
                                   dbgTransform |-> pick.transform,
                                   dbgStatus |-> "decoded",
                                   decoder |-> r.st],
                           fired |-> IF r.complete THEN {"onProgress", "onComplete"}
                                     ELSE {"onProgress"},
                           progress |-> r.progress,
                           text |-> IF r.complete THEN reassemble(r.st) ELSE <<>>] :
                            r \in { addFrame(sc.decoder, dotValues) } })
               ELSE [NoCallbacks EXCEPT !.fired = {}] @@
                    [sc |-> [sc EXCEPT !.cachedTransform = cached,
                                       !.dbgTransform = pick.transform,
                                       !.dbgStatus = "bad-header"]]
    IN IF pick.transform = NoTransform
       THEN NoCallbacks @@
            [sc |-> [sc EXCEPT !.dbgTransform = NoTransform,
                               !.dbgStatus = IF blobs < 3 THEN "no-blobs"
                                             ELSE "no-triangle"]]
       ELSE The({ Sampled(valid) : valid \in { headerValid(_dotsToBytes(dotValues)) } })

\* new DotbeamScanner(...), pointed at a one-frame transmission over a channel
\* that delivers the frame as sent or with a header that is not a frame's.
InitScan ==
    /\ config = ScannerConfig
    /\ data = Pattern(3)
    /\ noise = Malformed
    /\ _currentFrameIndex = 0
    /\ txFrames = Encode(config, data)
    /\ encoded = TRUE
    /\ order = "asc"
    /\ fed = {}
    /\ frames = <<>>
    /\ total = 0
    /\ received = 0
    /\ JsFresh
    /\ ScanFresh
    /\ CamFresh
    /\ sample = NoSample
    /\ LibFresh
    /\ lastOp = "New"
    /\ ret = NoRet

\* start() forgetting the cached transform as it resets the decoder.
ScanStartClearsCache ==
    /\ ~_running
    /\ _running' = TRUE
    /\ _votes' = <<>>
    /\ _frames' = <<>>
    /\ _totalFrames' = null
    /\ _received' = 0
    /\ _ftCounts' = <<>>
    /\ _ftTotal' = 0
    /\ _cachedTransform' = NoTransform
    /\ lastOp' = "start"
    /\ ret' = NoRet
    /\ UNCHANGED <<libVars, sample, camVars, txVars, fed, goVars, _dbgTransform, _dbgStatus>>

\* scanner.start()
ScanStart ==
    /\ ~_running
    /\ _running' = TRUE
    /\ _votes' = <<>>
    /\ _frames' = <<>>
    /\ _totalFrames' = null
    /\ _received' = 0
    /\ _ftCounts' = <<>>
    /\ _ftTotal' = 0
    /\ lastOp' = "start"
    /\ ret' = NoRet
    /\ UNCHANGED <<libVars, sample, camVars, txVars, fed, goVars, _cachedTransform, _dbgTransform, _dbgStatus>>

\* scanner.stop()
ScanStop ==
    /\ _running
    /\ _running' = FALSE
    /\ lastOp' = "stop"
    /\ ret' = NoRet
    /\ UNCHANGED <<libVars, sample, camVars, txVars, fed, goVars, jsVars, _cachedTransform, _dbgTransform, _dbgStatus>>

\* One tick that scans: _tick calls _scan while the scanner is running.  ret
\* keeps what the tick saw (blobs, freshTransform) and the callbacks it called.
ScanTick ==
    /\ _running
    /\ \E blobs \in BlobCounts, dotValues \in Captures :
       \E derived \in IF blobs >= 3 THEN Transforms \cup {NoTransform} ELSE {NoTransform} :
       \E r \in { _scan(ScanState, blobs, derived, dotValues) } :
          /\ _running' = r.sc.running
          /\ _cachedTransform' = r.sc.cachedTransform
          /\ _dbgTransform' = r.sc.dbgTransform
          /\ _dbgStatus' = r.sc.dbgStatus
          /\ _votes' = r.sc.decoder.votes
          /\ _frames' = r.sc.decoder.frames
          /\ _totalFrames' = r.sc.decoder.totalFrames
          /\ _received' = r.sc.decoder.received
          /\ _ftCounts' = r.sc.decoder.ftCounts
          /\ _ftTotal' = r.sc.decoder.ftTotal
          /\ lastOp' = "_scan"
          /\ ret' = [blobs |-> blobs, freshTransform |-> derived, fired |-> r.fired,
                     progress |-> r.progress, text |-> r.text]
    /\ UNCHANGED <<libVars, sample, camVars, txVars, fed, goVars>>

NextScan == ScanStart \/ ScanTick \/ ScanStop

SpecScan == InitScan /\ [][NextScan]_vars

\* ------------------------------------------------- the transform cache

\* The center of f is less than 15% of t's scale away from t's, its scale
\* differs by less than 20% of t's scale, its rotation by less than 15 degrees.
WithinDrift(f, t) ==
    LET dx == f.center.x - t.center.x
        dy == f.center.y - t.center.y
    IN /\ 10000 * (dx * dx + dy * dy) < (15 * t.scale) * (15 * t.scale)
       /\ 100 * Abs(f.scale - t.scale) < 20 * t.scale
       /\ Abs(f.rotation - t.rotation) < 15

\* C18: transform drift rule.  In every tick that derives a fresh transform
\* while a transform T is cached, the fresh transform replaces the cache (and
\* is the one used) if and only if it is within the drift limits of T;
\* otherwise the cache stays T and T is the transform used.  In particular,
\* with the pattern's transform cached, a center 10% of the scale away is
\* accepted and a center exactly 15% away is rejected, on every such tick.
C18_DriftRule ==
    [][(/\ lastOp' = "_scan"
        /\ _cachedTransform # NoTransform
        /\ ret'.freshTransform # NoTransform)
       => /\ IF WithinDrift(ret'.freshTransform, _cachedTransform)
             THEN /\ _cachedTransform' = ret'.freshTransform
                  /\ _dbgTransform' = ret'.freshTransform
             ELSE /\ _cachedTransform' = _cachedTransform
                  /\ _dbgTransform' = _cachedTransform
          /\ (_cachedTransform = Steady /\ ret'.freshTransform = Transform(110, 100, 100, 0))
             => _cachedTransform' = Transform(110, 100, 100, 0)
          /\ (_cachedTransform = Steady /\ ret'.freshTransform = Transform(109, 112, 100, 0))
             => _cachedTransform' = Steady]_vars

\* A tick derived a transform whose center is exactly 15% of the scale away
\* from the cached one, sampled with the cached one and left the cache alone.
C18_Witness ==
    /\ lastOp = "_scan"
    /\ ret.freshTransform = Transform(109, 112, 100, 0)
    /\ _cachedTransform = Steady
    /\ _dbgTransform = Steady

\* C19 as stated: with no transform cached, the fresh transform a tick derives
\* becomes the cache whatever the sampled dots decode to.
C19_CachedUnconditionally ==
    [][(/\ lastOp' = "_scan"
        /\ _cachedTransform = NoTransform
        /\ ret'.freshTransform # NoTransform)
       => _cachedTransform' = ret'.freshTransform]_vars

\* C19, amended: with no transform cached, the fresh transform a tick derives
\* is the one it samples with, and it becomes the cache exactly when the dots
\* sampled with it decode to a valid header (the tick ends "decoded"); on a
\* bad header the cache stays empty and the decoder is not called.
C19_CachedOnValidHeader ==
    [][(/\ lastOp' = "_scan"
        /\ _cachedTransform = NoTransform
        /\ ret'.freshTransform # NoTransform)
       => /\ _dbgTransform' = ret'.freshTransform
          /\ \/ /\ _dbgStatus' = "decoded"
                /\ _cachedTransform' = ret'.freshTransform
                /\ _ftTotal' = _ftTotal + 1
             \/ /\ _dbgStatus' = "bad-header"
                /\ _cachedTransform' = NoTransform
                /\ UNCHANGED jsVars]_vars

\* A tick sampled with a fresh transform, read a bad header, and cached nothing.
C19_Witness ==
    /\ lastOp = "_scan"
    /\ ret.freshTransform # NoTransform
    /\ _dbgTransform = ret.freshTransform
    /\ _dbgStatus = "bad-header"
    /\ _cachedTransform = NoTransform

\* C20: in a tick that finds no valid anchor triple, the cached transform, if
\* there is one, is the one used for sampling; with no cache the tick ends as
\* not detected, the cache stays empty, the decoder's tally, lock, vote
\* buckets, stored payloads and received are unchanged, and no progress or
\* completion callback is called.
C20_NoTriple ==
    [][(lastOp' = "_scan" /\ ret'.freshTransform = NoTransform)
       => IF _cachedTransform # NoTransform
          THEN /\ _dbgTransform' = _cachedTransform
               /\ _cachedTransform' = _cachedTransform
               /\ _dbgStatus' \in {"decoded", "bad-header"}
          ELSE /\ _dbgStatus' = (IF ret'.blobs < 3 THEN "no-blobs" ELSE "no-triangle")
               /\ _dbgTransform' = NoTransform
               /\ _cachedTransform' = NoTransform
               /\ UNCHANGED jsVars
               /\ _running' = _running
               /\ ret'.fired = {}]_vars

\* A tick found three blobs but no triple, with nothing cached, and ended as
\* not detected without calling back.
C20_Witness ==
    /\ lastOp = "_scan"
    /\ ret.blobs >= 3
    /\ ret.freshTransform = NoTransform
    /\ _cachedTransform = NoTransform
    /\ _dbgStatus = "no-triangle"
    /\ ret.fired = {}

\* ------------------------------------------------- camera and animation frames

\* Calls of start() that reach getUserMedia.
MaxStarts == 2

\* new DotbeamScanner(...), pointed at a one-frame transmission read without
\* misreads.
InitCam ==
    /\ config = ScannerConfig
    /\ data = Pattern(3)
    /\ noise = {}
    /\ _currentFrameIndex = 0
    /\ txFrames = Encode(config, data)
    /\ encoded = TRUE
    /\ order = "asc"
    /\ fed = {}
    /\ frames = <<>>
    /\ total = 0
    /\ received = 0
    /\ JsFresh
    /\ ScanFresh
    /\ CamFresh
    /\ sample = NoSample
    /\ LibFresh
    /\ lastOp = "New"
    /\ ret = NoRet

\* scanner.start() on a scanner that is not running (on a running one it
\* returns at once): the synchronous part, up to the call of getUserMedia.
CamStart ==
    /\ ~_running
    /\ starts < MaxStarts
    /\ _running' = TRUE
    /\ _votes' = <<>>
    /\ _frames' = <<>>
    /\ _totalFrames' = null
    /\ _received' = 0
    /\ _ftCounts' = <<>>
    /\ _ftTotal' = 0
    /\ starts' = starts + 1
    /\ acquiring' = acquiring \cup { starts + 1 }
    /\ lastOp' = "start"
    /\ ret' = NoRet
    /\ UNCHANGED <<libVars, sample, txVars, fed, goVars, _cachedTransform, _dbgTransform, _dbgStatus,
                   _stream, _rafId, srcObject, liveStreams, metaListeners, rafQueue>>

\* getUserMedia resolves with a stream: the then-callback of start().
Acquired ==
    /\ \E stream \in acquiring :
          /\ acquiring' = acquiring \ { stream }
          /\ liveStreams' = liveStreams \cup { stream }
          /\ _stream' = stream
          /\ srcObject' = stream
          /\ metaListeners' = metaListeners \cup { stream }
    /\ lastOp' = "acquired"
    /\ ret' = NoRet
    /\ UNCHANGED <<libVars, sample, txVars, fed, goVars, jsVars, scanVars, _rafId, rafQueue, starts>>

\* getUserMedia rejects: the catch-callback of start().
AcquireFailed ==
    /\ \E stream \in acquiring : acquiring' = acquiring \ { stream }
    /\ _running' = FALSE
    /\ lastOp' = "onError"
    /\ ret' = NoRet
    /\ UNCHANGED <<libVars, sample, txVars, fed, goVars, jsVars, _cachedTransform, _dbgTransform,
                   _dbgStatus, _stream, _rafId, srcObject, liveStreams, metaListeners,
                   rafQueue, starts>>

\* _tick(now), run by the metadata listener or the animation-frame request
\* `request`: nothing if the scanner is not running; otherwise a scan unless
\* throttled, and the next animation frame requested.
Tick(request) ==
    /\ IF ~_running
       THEN /\ rafQueue' = rafQueue \ { request }
            /\ ret' = [scanned |-> FALSE, fired |-> {}]
            /\ UNCHANGED <<jsVars, scanVars, _rafId>>
       ELSE /\ rafQueue' = rafQueue \cup { request }
            /\ _rafId' = request
            /\ \/ /\ ret' = [scanned |-> FALSE, fired |-> {}]
                  /\ UNCHANGED <<jsVars, scanVars>>
               \/ \E dotValues \in Captures :
                  \E r \in { _scan(ScanState, 3, Steady, dotValues) } :
                     /\ _running' = r.sc.running
                     /\ _cachedTransform' = r.sc.cachedTransform
                     /\ _dbgTransform' = r.sc.dbgTransform
                     /\ _dbgStatus' = r.sc.dbgStatus
                     /\ _votes' = r.sc.decoder.votes
                     /\ _frames' = r.sc.decoder.frames
                     /\ _totalFrames' = r.sc.decoder.totalFrames
                     /\ _received' = r.sc.decoder.received
                     /\ _ftCounts' = r.sc.decoder.ftCounts
                     /\ _ftTotal' = r.sc.decoder.ftTotal
                     /\ ret' = [scanned |-> TRUE, fired |-> r.fired]
    /\ lastOp' = "_tick"

\* The video element reports loadedmetadata: a listener removes itself and
\* runs the first tick.
MetadataReady ==
    /\ srcObject # null
    /\ \E listener \in metaListeners :
          /\ metaListeners' = metaListeners \ { listener }
          /\ Tick(listener)
    /\ UNCHANGED <<libVars, sample, txVars, fed, goVars, _stream, srcObject, acquiring, liveStreams, starts>>

\* The browser runs a requested animation frame.
AnimationFrame ==
    /\ \E request \in rafQueue : Tick(request)
    /\ UNCHANGED <<libVars, sample, txVars, fed, goVars, _stream, srcObject, acquiring, liveStreams,
                   metaListeners, starts>>

\* scanner.stop()
CamStop ==
    /\ lastOp # "stop"
    /\ _running' = FALSE
    /\ rafQueue' = rafQueue \ { _rafId }
    /\ _rafId' = null
    /\ liveStreams' = liveStreams \ { _stream }
    /\ _stream' = null
    /\ srcObject' = null
    /\ lastOp' = "stop"
    /\ ret' = NoRet
    /\ UNCHANGED <<libVars, sample, txVars, fed, goVars, jsVars, _cachedTransform, _dbgTransform,
                   _dbgStatus, acquiring, metaListeners, starts>>

NextCam ==
    CamStart \/ Acquired \/ AcquireFailed \/ MetadataReady \/ AnimationFrame \/ CamStop

SpecCam == InitCam /\ [][NextCam]_vars

\* C21: cancellation.  Once the scanner has been stopped with no camera
\* acquisition left in flight (and not by completing the scan), every camera
\* stream it has acquired has been released, whatever the interleaving of
\* start(), stop(), the acquisition result, the metadata event and the
\* animation frames.
C21_StoppedReleased ==
    (~_running /\ acquiring = {} /\ ~AllStored) => liveStreams = {}

\* ------------------------------------------------- the Go Decoder's counters

\* The dots decode to a frame AddFrame accepts whose index is already stored.
IsDuplicate(c, dots) ==
    /\ Len(dots) > 0
    /\ \A bytes \in { AddFrameData(c, dots) } :
          /\ Len(bytes) >= 2
          /\ bytes[2] # 0
          /\ bytes[1] \in DOMAIN frames

\* C22: duplicates are dropped.  In every state, AddFrame on a frame whose
\* index is already stored leaves received and the stored payloads as they
\* were and returns no error, and received is the number of distinct frame
\* indices stored.
C22_DuplicatesDropped ==
    /\ received = Cardinality(DOMAIN frames)
    /\ \A dots \in AnyDots(config) :
          IsDuplicate(config, dots)
          => \A r \in { AddFrameStep(config, dots, frames, total, received) } :
                /\ r.err = "nil"
                /\ r.received = received
                /\ r.frames = frames

\* Two frame indices are stored, and a frame with a stored index and a
\* different payload can be added.
C22_Witness ==
    /\ lastOp = "AddFrame"
    /\ received = 2
    /\ \E dots \in AnyDots(config) :
          /\ IsDuplicate(config, dots)
          /\ \A bytes \in { AddFrameData(config, dots) } :
                frames[bytes[1]] # SubSeq(bytes, 3, Len(bytes))

\* C23: Decoder.Progress() is a fraction in [0, 1] in every state: 0 while no
\* frame has been accepted, and never more than 1 after any sequence of
\* AddFrame calls.
C23_ProgressWithinUnit ==
    \A p \in { Progress(total, received) } :
       /\ 0 <= p[1]
       /\ p[1] <= p[2]
       /\ frames = <<>> => p[1] = 0

\* ------------------------------------------------- reset

\* C24: after Reset the Go Decoder is as NewDecoder made it (no frames, total
\* 0, received 0, progress 0), and after reset() the scanner Decoder is as
\* constructed (no lock, empty tally, no vote buckets, no stored payloads,
\* received 0, progress 0), whatever operations came before.
C24_ResetClears ==
    /\ lastOp = "Reset"
       => /\ frames = <<>> /\ total = 0 /\ received = 0
          /\ Progress(total, received) = <<0, 1>>
          /\ Data(frames, total, received) = Data(<<>>, 0, 0)
    /\ lastOp = "reset"
       => /\ JsFresh
          /\ progress(JsState) = <<0, 1>>
          /\ reassemble(JsState) = <<>>

\* The scanner Decoder has just been reset while the Go Decoder, reset
\* earlier, holds frames again.
C24_Witness ==
    /\ lastOp = "reset"
    /\ JsFresh
    /\ received > 0

\* ------------------------------------------------- the encoder alone

\* Layouts too small for a payload byte: 12 bits (1 byte, BytesPerFrame -1)
\* and 18 bits (2 bytes, BytesPerFrame 0).
SmallConfigs == { [Rings |-> 1, BitsPerDot |-> 2], [Rings |-> 1, BitsPerDot |-> 3] }

\* What Encode is handed: no data, short data, data at the frame boundaries
\* and at the protocol limit.
EncodePayloads(c) ==
    {<<>>} \cup ShortPayloads \cup (IF BytesPerFrame(c) > 0 THEN LongPayloads(c) ELSE {})

\* NewEncoder(config) and a payload.
InitEncode ==
    /\ config \in Configs \cup SmallConfigs
    /\ data \in EncodePayloads(config)
    /\ txFrames = <<>>
    /\ encoded = FALSE
    /\ order = "asc"
    /\ fed = {}
    /\ frames = <<>>
    /\ total = 0
    /\ received = 0
    /\ noise = {}
    /\ _currentFrameIndex = 0
    /\ JsFresh
    /\ ScanFresh
    /\ CamFresh
    /\ sample = NoSample
    /\ LibFresh
    /\ lastOp = "New"
    /\ ret = NoRet

NextEncode == GoEncode

SpecEncode == InitEncode /\ [][NextEncode]_vars

\* The number of frames the data needs: ceil(len / bytesPerFrame).
FramesNeeded(len, bytesPerFrame) ==
    CHOOSE n \in 0..len : (n - 1) * bytesPerFrame < len /\ len <= n * bytesPerFrame

\* C25: Encode(data) returns min(ceil(len(data)/BytesPerFrame), 255) frames,
\* none for empty data or when BytesPerFrame <= 0; frame i has Index i, Total
\* the number of frames, as Payload the i-th BytesPerFrame-sized chunk of the
\* data, and exactly TotalDots() dots with values below 2^BitsPerDot.  So
\* 0 <= Index < Total <= 255, and the payloads together are the first
\* 255 * BytesPerFrame bytes of the data and nothing beyond.
C25_EncodeShape ==
    encoded
    => \A b \in { BytesPerFrame(config) } :
          IF b <= 0 \/ data = <<>> THEN txFrames = <<>>
          ELSE /\ Len(txFrames) = Min(FramesNeeded(Len(data), b), 255)
               /\ \A k \in 1..Len(txFrames) :
                     \A f \in { txFrames[k] } :
                        /\ f.Index = k - 1
                        /\ f.Total = Len(txFrames)
                        /\ 0 <= f.Index /\ f.Index < f.Total /\ f.Total <= 255
                        /\ f.Payload = SubSeq(data, (k - 1) * b + 1, Min(k * b, Len(data)))
                        /\ Len(f.Dots) = TotalDots(config)
                        /\ \A j \in 1..Len(f.Dots) :
                              f.Dots[j] \in 0..(2 ^ config.BitsPerDot - 1)

\* Data one byte longer than 255 frames hold has been encoded into 255 frames.
C25_Witness ==
    /\ encoded
    /\ Len(data) = MaxFrames * BytesPerFrame(config) + 1
    /\ Len(txFrames) = MaxFrames
    /\ txFrames[MaxFrames].Index = MaxFrames - 1

\* ------------------------------------------------- wire layout

\* The bytes a frame's dots can carry: floor(TotalDots * BitsPerDot / 8).
Capacity(c) == BitsPerFrame(c) \div 8

\* Byte strings of exactly that many bytes.
CapacityImages(c) ==
    { Array(Capacity(c), LAMBDA k : v) : v \in PayloadBytes }
    \cup { Array(Capacity(c), LAMBDA k : (k * 37 + 11) % 256) }

\* DefaultConfig(): 4 rings of 3-bit dots, 180 bits, 22 bytes.
DefaultConfig == [Rings |-> 4, BitsPerDot |-> 3]

\* The layouts of the model and the default one.
WireConfigs == Configs \cup SmallConfigs \cup { DefaultConfig }

\* A byte string padded as Encode pads frameBytes: to ceil(bits / 8) bytes.
Padded(c, image) ==
    image \o Zeros(((BitsPerFrame(c) + 7) \div 8) - Len(image))

\* The dot values of every encoded frame, read MSB-first in ring order and
\* regrouped into bytes, are the frame index, the frame total, the payload
\* bytes, and then zero bytes only, up to the capacity.
FrameImages ==
    \A k \in 1..Len(txFrames) :
       \A f \in { txFrames[k] } :
          dotsToBytes(config, f.Dots)
             = <<f.Index, f.Total>> \o f.Payload
               \o Zeros(Capacity(config) - 2 - Len(f.Payload))

RECURSIVE SumOver(_, _)
SumOver(S, f) ==
    IF S = {} THEN 0
    ELSE LET x == CHOOSE y \in S : TRUE IN f[x] + SumOver(S \ {x}, f)

\* In hundredths of a frame: a voted frame counts 100, a frame not yet voted
\* 100 times its number of captures over MIN_VOTES.
FrameShare ==
    [i \in 0..(_totalFrames - 1) |->
        IF i \in DOMAIN _frames THEN 100
        ELSE IF i \in DOMAIN _votes THEN (100 * Len(_votes[i])) \div MIN_VOTES
        ELSE 0]

\* C27: progress() is 0 while no total is locked; afterwards it is (voted
\* frames + for each frame not yet voted its captures / 5) / locked total;
\* it lies in [0, 1] in every state, and it is what addFrame reports.
C27_Progress ==
    \A p \in { progress(JsState) } :
       /\ _totalFrames = null => p[1] = 0
       /\ _totalFrames # null
          => /\ p[2] = 100 * _totalFrames
             /\ p[1] = SumOver(0..(_totalFrames - 1), FrameShare)
       /\ 0 <= p[1] /\ p[1] <= p[2]
       /\ lastOp = "addFrame" => ret.progress[1] * p[2] = p[1] * ret.progress[2]

\* Of two frames one is voted and the other has some captures, none voted.
C27_Witness ==
    /\ lastOp = "addFrame"
    /\ _totalFrames = 2
    /\ _received = 1
    /\ \E i \in DOMAIN _votes : i \notin DOMAIN _frames /\ Len(_votes[i]) > 0
    /\ ret.progress[1] > 100
    /\ ret.progress[1] < 200

\* ------------------------------------------------- the layout

\* Radii are fractions <<numerator, denominator>> of the unit radius; the
\* code computes them in floating point.
\* layout.go ringRadius(ring, totalRings)
ringRadius(ring, totalRings) ==
    IF totalRings = 1 THEN <<40, 100>>
    ELSE <<22 * (totalRings - 1) + (70 - 22) * (ring - 1), 100 * (totalRings - 1)>>

\* dotbeam-core.js layout(config): the radius of ring n of numRings
coreRadius(n, numRings) ==
    IF numRings = 1 THEN <<22 + 70, 2 * 100>>
    ELSE <<22 * (numRings - 1) + (70 - 22) * (n - 1), 100 * (numRings - 1)>>

\* NewLayout(config, 1, 1), which NewEncoder calls: make([]RingLayout,
\* config.Rings) panics on a negative length; there is no error result.
NewLayout(c) ==
    IF c.Rings < 0 THEN [outcome |-> "panic", Rings |-> <<>>]
    ELSE [outcome |-> "layout",
          Rings |-> Array(c.Rings, LAMBDA ring :
                             [Radius |-> ringRadius(ring, c.Rings), DotCount |-> ring * 6])]

\* Configs with a ring count below 1.
NoRingConfigs == { [Rings |-> r, BitsPerDot |-> 3] : r \in {0 - 1, 0} }

\* C28: degenerate configurations are rejected and never panic: constructing
\* the layout (and with it the encoder) for a config with fewer than 1 ring
\* is rejected, and AddFrame on dots that carry fewer than 2 bytes returns
\* ErrInvalidFrame.
C28_DegenerateRejected ==
    /\ \A c \in NoRingConfigs : NewLayout(c).outcome = "rejected"
    /\ \A c \in SmallConfigs :
          Capacity(c) < 2
          => AddFrameStep(c, bytesToDots(c, Padded(c, <<>>)), frames, total, received).err
                = "ErrInvalidFrame"

\* The fractions a and b are the same number.
SameFraction(a, b) == a[1] * b[2] = b[1] * a[2]

\* C29: ring radii.  With R > 1 rings, ring n has radius
\* 0.22 + (0.70 - 0.22) * (n - 1) / (R - 1); with one ring the radius is the
\* midpoint 0.46; in the Go layout and in the browser layout alike.
C29_RingRadii ==
    \A R \in { config.Rings } :
       \A n \in 1..R :
          \A want \in { IF R = 1 THEN <<46, 100>>
                        ELSE <<22 * (R - 1) + 48 * (n - 1), 100 * (R - 1)>> } :
             /\ SameFraction(NewLayout(config).Rings[n].Radius, want)
             /\ SameFraction(coreRadius(n, R), want)

\* ------------------------------------------------- colour matching

\* DotbeamCore.colors: red, orange, gold, green, cyan, blue, purple, magenta.
PALETTE ==
    << [r |-> 255, g |-> 68, b |-> 68], [r |-> 255, g |-> 140, b |-> 0],
       [r |-> 255, g |-> 215, b |-> 0], [r |-> 68, g |-> 255, b |-> 68],
       [r |-> 0, g |-> 206, b |-> 209], [r |-> 68, g |-> 136, b |-> 255],
       [r |-> 170, g |-> 68, b |-> 255], [r |-> 255, g |-> 68, b |-> 255] >>

Max3(r, g, b) == IF r >= g /\ r >= b THEN r ELSE IF g >= b THEN g ELSE b

Min3(r, g, b) == IF r <= g /\ r <= b THEN r ELSE IF g <= b THEN g ELSE b

\* Hues and distances are exact fractions <<n, d>>, d > 0.  A hue <<n, d>>
\* is 60 * n / d degrees.
\* a/b < c/d for a, c >= 0 and b, d > 0, by continued fractions, which keeps
\* the numbers small.
RECURSIVE FracLess(_, _, _, _)
FracLess(a, b, c, d) ==
    IF a \div b # c \div d THEN a \div b < c \div d
    ELSE IF c % d = 0 THEN FALSE
    ELSE IF a % b = 0 THEN TRUE
    ELSE FracLess(d, c % d, b, a % b)

\* What rgbToHue returns for a near-achromatic colour: -1 degree.
Achromatic == <<0 - 1, 60>>

\* The hue of a colour with two different channels: the sextant of the
\* largest channel, the r branch first.  With max = r the quotient
\* (g - b) / delta is in -1..1 and % 6 leaves it alone.
Hue(r, g, b) ==
    LET max == Max3(r, g, b)
        delta == max - Min3(r, g, b)
        hue == IF max = r THEN g - b
               ELSE IF max = g THEN (b - r) + 2 * delta
               ELSE (r - g) + 4 * delta
    IN <<IF hue < 0 THEN hue + 6 * delta ELSE hue, delta>>

\* rgbToHue(r, g, b)
rgbToHue(r, g, b) ==
    IF Max3(r, g, b) - Min3(r, g, b) < 10 THEN Achromatic ELSE Hue(r, g, b)

\* paletteHues
paletteHues == [i \in DOMAIN PALETTE |-> rgbToHue(PALETTE[i].r, PALETTE[i].g, PALETTE[i].b)]

\* hueDist(h1, h2): the angular distance, at most 180 degrees.
hueDist(h1, h2) ==
    LET d == Abs(h1[1] * h2[2] - h2[1] * h1[2])
        den == h1[2] * h2[2]
    IN <<IF d > 3 * den THEN 6 * den - d ELSE d, den>>

\* colorDistSq(r1, g1, b1, r2, g2, b2)
colorDistSq(r1, g1, b1, r2, g2, b2) ==
    (r1 - r2) * (r1 - r2) + (g1 - g2) * (g1 - g2) + (b1 - b2) * (b1 - b2)

\* The loop of matchColor over the palette: the index (from 0) of the first
\* entry whose distance no other entry undercuts.
Nearest(dist) ==
    LET RECURSIVE Loop(_, _)
        Loop(i, bestIdx) ==
            IF i > Len(dist) THEN bestIdx - 1
            ELSE IF bestIdx = 0
                    \/ FracLess(dist[i][1], dist[i][2], dist[bestIdx][1], dist[bestIdx][2])
                 THEN Loop(i + 1, i)
                 ELSE Loop(i + 1, bestIdx)
    IN Loop(1, 0)

\* The test of matchColor for matching by hue: sat > 0.15 && max > 30.
Saturated(r, g, b) ==
    LET max == Max3(r, g, b)
    IN /\ max # 0
       /\ (max - Min3(r, g, b)) * 100 > 15 * max
       /\ max > 30

\* matchColor(r, g, b)
matchColor(r, g, b) ==
    IF Saturated(r, g, b) /\ rgbToHue(r, g, b)[1] >= 0
    THEN Nearest([i \in DOMAIN PALETTE |-> hueDist(rgbToHue(r, g, b), paletteHues[i])])
    ELSE Nearest([j \in DOMAIN PALETTE |->
                    <<colorDistSq(r, g, b, PALETTE[j].r, PALETTE[j].g, PALETTE[j].b), 1>>])

\* Channel values of the samples classified.
Levels == {0, 32, 40, 80, 128, 160, 200, 255}

\* The colours a dot can be sampled as.
Samples == { <<r, g, b>> : r \in Levels, g \in Levels, b \in Levels }

InitColor ==
    /\ config = ScannerConfig
    /\ data = <<>>
    /\ txFrames = <<>>
    /\ encoded = FALSE
    /\ noise = {}
    /\ _currentFrameIndex = 0
    /\ order = "asc"
    /\ fed = {}
    /\ frames = <<>>
    /\ total = 0
    /\ received = 0
    /\ JsFresh
    /\ ScanFresh
    /\ CamFresh
    /\ sample = NoSample
    /\ LibFresh
    /\ lastOp = "New"
    /\ ret = NoRet

\* One dot of a frame is sampled and classified: matchColor(cr, cg, cb).
MatchColor ==
    \E s \in Samples :
       /\ sample' = s
       /\ ret' = [index |-> matchColor(s[1], s[2], s[3])]
       /\ lastOp' = "matchColor"
       /\ UNCHANGED <<libVars, camVars, scanVars, txVars, fed, goVars, jsVars>>

NextColor == MatchColor

SpecColor == InitColor /\ [][NextColor]_vars

\* The two colours have the same hue.
SameHue(s, t) ==
    /\ Max3(s[1], s[2], s[3]) # Min3(s[1], s[2], s[3])
    /\ Max3(t[1], t[2], t[3]) # Min3(t[1], t[2], t[3])
    /\ Hue(s[1], s[2], s[3])[1] * Hue(t[1], t[2], t[3])[2]
          = Hue(t[1], t[2], t[3])[1] * Hue(s[1], s[2], s[3])[2]

\* C30: hue invariance.  Two samples with the same hue at different
\* brightness, both with saturation > 0.15 and max channel > 30, are
\* classified by matchColor to the same palette index.
C30_HueInvariance ==
    lastOp = "matchColor"
    => \A other \in Samples :
          (/\ Saturated(sample[1], sample[2], sample[3])
           /\ Saturated(other[1], other[2], other[3])
           /\ SameHue(sample, other))
          => matchColor(other[1], other[2], other[3]) = ret.index

\* ------------------------------------------------- the JS library

\* Encoder._bytesToDots: value = (value << 1) | bit in a 32-bit integer, one
\* dot per layout position until the bits run out.
lib_bytesToDots(c, bytes) ==
    LET bits == bytesToBits(bytes)
        bpd == c.BitsPerDot
        n == Min(TotalDots(c), Len(bits) \div bpd)
        RECURSIVE Shift(_, _, _)
        Shift(bitStart, value, b) ==
            IF b = bpd THEN value
            ELSE Shift(bitStart, value * 2 + bits[bitStart + b + 1], b + 1)
    IN Array(n, LAMBDA dotIndex : Shift((dotIndex - 1) * bpd, 0, 0))

\* Encoder.encode(data)
libEncode(c, d) ==
    LET bpf == BytesPerFrame(c)
        needed == (Len(d) + bpf - 1) \div bpf
        totalFrames == IF needed > 255 THEN 255 ELSE needed
        totalBytes == (BitsPerFrame(c) + 7) \div 8
        frame(i) ==
            LET chunk == SubSeq(d, i * bpf + 1, Min(i * bpf + bpf, Len(d)))
                frameBytes == <<i % 256, totalFrames % 256>> \o chunk
                padded == IF Len(frameBytes) < totalBytes
                          THEN frameBytes \o Zeros(totalBytes - Len(frameBytes))
                          ELSE frameBytes
            IN [index |-> i, total |-> totalFrames, dots |-> lib_bytesToDots(c, padded),
                payload |-> chunk]
    IN IF bpf <= 0 THEN <<>>
       ELSE Array(totalFrames, LAMBDA k : frame(k - 1))

\* Decoder._dotsToBytes(dots)
lib_dotsToBytes(c, dots) ==
    LET bpd == c.BitsPerDot
        bits == Array(Len(dots) * bpd,
                      LAMBDA k : (dots[((k - 1) \div bpd) + 1]
                          \div (2 ^ (bpd - 1 - ((k - 1) % bpd)))) % 2)
        RECURSIVE Pack(_, _, _)
        Pack(i, j, val) ==
            IF j = 8 THEN val % 256
            ELSE Pack(i, j + 1, val * 2 + bits[i * 8 + j + 1])
    IN Array(Len(bits) \div 8, LAMBDA i : Pack(i - 1, 0, 0))

\* Decoder.addFrame(dots): the decoder's fields after the call, what it
\* returns, and the error it throws ("nil" when it returns).
libAddFrame(c, dots, fr, tot, rec) ==
    LET bytes == lib_dotsToBytes(c, dots)
        thrown(e) == [frames |-> fr, total |-> tot, received |-> rec,
                      done |-> FALSE, err |-> e]
    IN IF Len(dots) = 0 THEN thrown("dotbeam: invalid frame")
       ELSE IF Len(bytes) < 2 THEN thrown("dotbeam: invalid frame header")
       ELSE IF bytes[2] = 0 THEN thrown("dotbeam: invalid frame total")
       ELSE LET frameIndex == bytes[1]
                has == frameIndex \in DOMAIN fr
                fr2 == IF has THEN fr
                       ELSE (frameIndex :> SubSeq(bytes, 3, Len(bytes))) @@ fr
                rec2 == IF has THEN rec ELSE rec + 1
            IN [frames |-> fr2, total |-> bytes[2], received |-> rec2,
                done |-> rec2 >= bytes[2], err |-> "nil"]

\* Decoder.data()
libData(fr, tot, rec) ==
    LET RECURSIVE Loop(_, _)
        Loop(i, result) ==
            IF i >= tot THEN [bytes |-> result, err |-> "nil"]
            ELSE IF i \notin DOMAIN fr
                 THEN [bytes |-> <<>>, err |-> "dotbeam: incomplete data"]
            ELSE Loop(i + 1, result \o fr[i])
    IN IF rec < tot THEN [bytes |-> <<>>, err |-> "dotbeam: incomplete data"]
       ELSE Loop(0, <<>>)

\* Decoder.progress() as the fraction <<numerator, denominator>>.
libProgress(tot, rec) == IF tot = 0 THEN <<0, 1>> ELSE <<rec, tot>>

\* One ring of 9-bit dots: 54 bits, 4 payload bytes per frame.
WideConfig == [Rings |-> 1, BitsPerDot |-> 9]

\* The configs handed to both libraries.
MirrorConfigs == Configs \cup SmallConfigs \cup { WideConfig }

\* The data handed to both encoders.
MirrorPayloads(c) ==
    {<<>>, <<255>>, <<65, 255>>}
    \cup (IF BytesPerFrame(c) > 0
          THEN { Pattern(n) : n \in {BytesPerFrame(c) + 1, MaxFrames * BytesPerFrame(c) + 1} }
          ELSE {})

\* A Go Encoder and Decoder and a JS Encoder and Decoder of one config.
InitMirror ==
    /\ config \in MirrorConfigs
    /\ data \in MirrorPayloads(config)
    /\ txFrames = <<>>
    /\ encoded = FALSE
    /\ order = "any"
    /\ fed = {}
    /\ frames = <<>>
    /\ total = 0
    /\ received = 0
    /\ noise = {}
    /\ _currentFrameIndex = 0
    /\ JsFresh
    /\ ScanFresh
    /\ CamFresh
    /\ sample = NoSample
    /\ LibFresh
    /\ lastOp = "New"
    /\ ret = NoRet

\* Both encoders encode the data.
MirrorEncode ==
    /\ ~encoded
    /\ txFrames' = Encode(config, data)
    /\ lib_txFrames' = libEncode(config, data)
    /\ encoded' = TRUE
    /\ lastOp' = "Encode"
    /\ ret' = NoRet
    /\ UNCHANGED <<lib_frames, lib_total, lib_received, sample, camVars, scanVars, config,
                   data, order, noise, _currentFrameIndex, fed, goVars, jsVars>>

\* What both decoders are handed: the frames Go's Encode produced, in any
\* order and again, no dots, too few dots, and frames with the headers
\* [0, 0], [1, 1] and [0, 2].
MirrorDots ==
    { txFrames[k].Dots : k \in 1..Len(txFrames) }
    \cup { <<>>, <<1>> }
    \cup { bytesToDots(config, Padded(config, h)) : h \in {<<0, 0>>, <<1, 1>>, <<0, 2>>} }

\* Both decoders are handed the same dots (in the runs that hold no long
\* transmission).
MirrorAddFrame ==
    /\ Len(txFrames) <= MaxPermFrames
    /\ \E dots \in MirrorDots :
       \E g \in { AddFrameStep(config, dots, frames, total, received) } :
          \E l \in { libAddFrame(config, dots, lib_frames, lib_total, lib_received) } :
             /\ frames' = g.frames
             /\ total' = g.total
             /\ received' = g.received
             /\ lib_frames' = l.frames
             /\ lib_total' = l.total
             /\ lib_received' = l.received
             /\ lastOp' = "AddFrame"
             /\ ret' = [go |-> [done |-> g.done, err |-> g.err],
                        lib |-> [done |-> l.done, err |-> l.err]]
             /\ UNCHANGED <<lib_txFrames, sample, camVars, scanVars, txVars, fed, jsVars>>

\* Both decoders are reset.
MirrorReset ==
    /\ lastOp = "AddFrame"
    /\ frames' = <<>>
    /\ total' = 0
    /\ received' = 0
    /\ lib_frames' = <<>>
    /\ lib_total' = 0
    /\ lib_received' = 0
    /\ lastOp' = "Reset"
    /\ ret' = NoRet
    /\ UNCHANGED <<lib_txFrames, sample, camVars, scanVars, txVars, fed, jsVars>>

NextMirror == MirrorEncode \/ MirrorAddFrame \/ MirrorReset

SpecMirror == InitMirror /\ [][NextMirror]_vars

\* The JS decoder has reported what the Go decoder has: the same completion
\* result of the last call, the same progress, the same reassembled bytes.
SameDecoding ==
    /\ lastOp = "AddFrame"
       => /\ ret.lib.done = ret.go.done
          /\ (ret.lib.err = "nil") = (ret.go.err = "nil")
    /\ libProgress(lib_total, lib_received) = Progress(total, received)
    /\ \A g \in { Data(frames, total, received) } :
          \A l \in { libData(lib_frames, lib_total, lib_received) } :
             (l.err = "nil") = (g.err = "nil") /\ l.bytes = g.bytes

\* The JS encoder has produced what the Go encoder has.
SameEncoding ==
    /\ Len(lib_txFrames) = Len(txFrames)
    /\ \A k \in 1..Len(txFrames) :
          /\ lib_txFrames[k].index = txFrames[k].Index
          /\ lib_txFrames[k].total = txFrames[k].Total
          /\ lib_txFrames[k].dots = txFrames[k].Dots

\* C31: the JS library mirrors the Go package.  For the same config and
\* input bytes the JS Encoder produces the same number of frames with the
\* same index, total and dot values as Go's Encode, and for the same
\* addFrame inputs the JS Decoder reports the same completion results,
\* progress and reassembled bytes as Go's Decoder.
C31_Mirror == SameEncoding /\ SameDecoding

\* ------------------------------------------------- completion of a scan

\* C32: in a scan session the completion callback is invoked at most once,
\* in the tick in which the decoder first reports complete: a tick calls it
\* only on a running scanner whose decoder was not complete and now is, and
\* that tick ends the session.  From then on, until start() is called again,
\* no capture is fed to the decoder and no callback fires.
C32_CompleteOnce ==
    [][/\ (lastOp' = "_tick" /\ "onComplete" \in ret'.fired)
          => _running /\ ~AllStored /\ AllStored' /\ ~_running'
       /\ (~_running /\ lastOp' # "start")
          => /\ jsVars' = jsVars
             /\ ~_running'
             /\ lastOp' = "_tick" => ret'.fired = {}]_vars

\* A tick has run after the scan completed, and did nothing.
C32_Witness ==
    /\ lastOp = "_tick"
    /\ AllStored
    /\ ~_running
    /\ ret.fired = {}

\* ------------------------------------------------- the consensus decoder's counters

\* received counts the stored frame indices, which lie below the locked
\* total; nothing is stored before the lock.
ReceivedCounts ==
    /\ _received = Cardinality(DOMAIN _frames)
    /\ _totalFrames = null => _frames = <<>>
    /\ _totalFrames # null
       => /\ \A i \in DOMAIN _frames : i < _totalFrames
          /\ _received <= _totalFrames

\* C33: in every reachable state of the consensus decoder, received equals
\* the number of frame indices that have a stored payload, every stored index
\* is below the locked total, so received <= locked total once locked; and
\* received never decreases before reset.
C33_ReceivedCount ==
    [][/\ ReceivedCounts
       /\ ReceivedCounts'
       /\ lastOp' # "reset" => _received' >= _received]_vars

\* Both frames of a two-frame transmission are stored.
C33_Witness ==
    /\ lastOp = "addFrame"
    /\ _received = 2
    /\ _totalFrames = 2
    /\ DOMAIN _frames = {0, 1}

\* C34: a voted payload is overwritable.  Once a frame index has a stored
\* payload, every further capture accepted for that index joins the captures
\* accumulated for it, and the stored payload becomes the per-dot plurality
\* over all of them; the received count does not change.
C34_Overwritable ==
    [][\A i \in DOMAIN _frames :
          (lastOp' = "addFrame" /\ _votes'[i] # _votes[i])
          => /\ Len(_votes'[i]) = Len(_votes[i]) + 1
             /\ IsPrefix(_votes[i], _votes'[i])
             /\ _frames'[i] = VotedPayload(_votes'[i])
             /\ _received' = _received
             /\ DOMAIN _frames' = DOMAIN _frames]_vars

\* The capture after the vote threshold has replaced the payload stored for
\* its frame index by another one, and the received count is still 1.
C34_Witness ==
    /\ lastOp = "addFrame"
    /\ _received = 1
    /\ \E i \in DOMAIN _frames :
          /\ Len(_votes[i]) = MIN_VOTES + 1
          /\ _frames[i] = VotedPayload(_votes[i])
          /\ _frames[i] # VotedPayload(SubSeq(_votes[i], 1, MIN_VOTES))

\* ------------------------------------------------- deriveTransform

\* Lengths are in hundredths of a pixel: Math.sqrt(n) as the largest h with
\* h * h <= 10000 * n, for n up to 200000.
Sqrt100(n) ==
    LET RECURSIVE Search(_, _)
        Search(lo, hi) ==
            IF lo = hi THEN lo
            ELSE The({ IF mid * mid <= 10000 * n THEN Search(mid, hi) ELSE Search(lo, mid - 1) :
                         mid \in { (lo + hi + 1) \div 2 } })
    IN Search(0, 46000)

\* dist(a, b)
dist(a, b) == Sqrt100((a.x - b.x) * (a.x - b.x) + (a.y - b.y) * (a.y - b.y))

\* isEquilateralTriangle(a, b, c): the sides within 30% of their average,
\* which is at least 20 pixels, and the sizes within a factor of 3.
isEquilateralTriangle(a, b, c) ==
    LET d1 == dist(a, b)
        d2 == dist(b, c)
        d3 == dist(a, c)
        sum == d1 + d2 + d3
        minSize == Min(a.size, Min(b.size, c.size))
        maxSize == 0 - Min(0 - a.size, Min(0 - b.size, 0 - c.size))
    IN /\ sum >= 3 * 20 * 100
       /\ 10 * Abs(3 * d1 - sum) < 3 * sum
       /\ 10 * Abs(3 * d2 - sum) < 3 * sum
       /\ 10 * Abs(3 * d3 - sum) < 3 * sum
       /\ maxSize <= minSize * 3

\* The candidate taken for the 270 degree anchor if it were the topmost one.
bottomIdxTopmost(candidates) ==
    LET RECURSIVE Loop(_, _)
        Loop(m, bottomIdx) ==
            IF m > 3 THEN bottomIdx
            ELSE Loop(m + 1, IF candidates[m].y < candidates[bottomIdx].y THEN m ELSE bottomIdx)
    IN Loop(2, 1)

\* The loop of deriveTransform that picks the bottommost candidate (indices
\* from 1).
bottomIdx(candidates) ==
    LET RECURSIVE Loop(_, _)
        Loop(m, best) ==
            IF m > 3 THEN best
            ELSE Loop(m + 1, IF candidates[m].y > candidates[best].y THEN m ELSE best)
    IN Loop(2, 1)

\* Math.round of thirds / 3.
RoundThird(thirds) == (2 * thirds + 3) \div 6

\* The transform deriveTransform returns for an accepted triple.  The center
\* is kept in thirds of a pixel (the sums of the coordinates), the scale in
\* hundredths.  An angle is kept as its direction: detectedAngle is that of
\* <<dx, dy>>, and detectedAngle - PI / 2 that of <<dy, -dx>>.  The
\* difference is in (-3 PI / 2, PI / 2]: it is below -PI, and the second
\* while loop adds 2 PI, exactly when dx < 0 and dy < 0, and it is -PI, which
\* the loops leave alone, exactly when dx = 0 and dy < 0.
tripleTransform(candidates) ==
    LET sx == candidates[1].x + candidates[2].x + candidates[3].x
        sy == candidates[1].y + candidates[2].y + candidates[3].y
        third(k) == Sqrt100((3 * candidates[k].x - sx) * (3 * candidates[k].x - sx)
                            + (3 * candidates[k].y - sy) * (3 * candidates[k].y - sy))
        avgDist == (third(1) + third(2) + third(3)) \div 9
        bottomBlob == candidates[bottomIdx(candidates)]
        dx == 3 * bottomBlob.x - sx
        dy == 3 * bottomBlob.y - sy
    IN [found |-> TRUE,
        center |-> <<sx, sy>>,
        scale |-> (avgDist * 100) \div 82,
        rotation |-> [direction |-> <<dy, 0 - dx>>,
                      wrapped |-> dx < 0 /\ dy < 0,
                      minusPi |-> dx = 0 /\ dy < 0],
        anchors |-> candidates]

\* deriveTransform(blobs, imageData, imgWidth): the first triple i < j < k
\* among the first 10 blobs that is equilateral and whose center is dark;
\* glare is the set of pixels that sample brighter than MAX_CENTER_BRIGHTNESS.
deriveTransform(blobs, glare) ==
    LET limit == Min(Len(blobs), 10)
        ok(i, j, k) ==
            /\ isEquilateralTriangle(blobs[i], blobs[j], blobs[k])
            /\ <<RoundThird(blobs[i].x + blobs[j].x + blobs[k].x),
                 RoundThird(blobs[i].y + blobs[j].y + blobs[k].y)>> \notin glare
        triples == { t \in (1..limit) \X (1..limit) \X (1..limit) :
                       t[1] < t[2] /\ t[2] < t[3] /\ ok(t[1], t[2], t[3]) }
        first == CHOOSE t \in triples :
                    \A u \in triples :
                       \/ t[1] < u[1]
                       \/ t[1] = u[1] /\ t[2] < u[2]
                       \/ t[1] = u[1] /\ t[2] = u[2] /\ t[3] <= u[3]
    IN IF Len(blobs) < 3 \/ triples = {} THEN [found |-> FALSE]
       ELSE tripleTransform(<<blobs[first[1]], blobs[first[2]], blobs[first[3]]>>)

\* Where findWhiteBlobs finds blobs: the corners of triangles that point
\* down, up and sideways, and of one too small to be the anchors.
BlobPositions ==
    { <<0, 0>>, <<100, 0>>, <<50, 87>>, <<50, 0>>, <<0, 87>>, <<100, 87>>,
      <<0, 50>>, <<87, 0>>, <<87, 100>>, <<10, 0>>, <<5, 9>> }

\* Blob sizes: anchors, and a glare blob.
BlobSizes == {10, 40}

\* The blob lists handed to deriveTransform: any three blobs in any order, and
\* any four anchor-sized ones.
BlobLists ==
    { <<[x |-> a[1], y |-> a[2], size |-> sa], [x |-> b[1], y |-> b[2], size |-> sb],
        [x |-> c[1], y |-> c[2], size |-> 10]>> :
        a \in BlobPositions, b \in BlobPositions, c \in BlobPositions,
        sa \in BlobSizes, sb \in BlobSizes }
    \cup { <<[x |-> a[1], y |-> a[2], size |-> 10], [x |-> b[1], y |-> b[2], size |-> 10],
             [x |-> c[1], y |-> c[2], size |-> 10], [x |-> 87, y |-> 100, size |-> 10]>> :
             a \in BlobPositions, b \in BlobPositions, c \in BlobPositions }
    \cup { <<>>, <<[x |-> 0, y |-> 0, size |-> 10], [x |-> 100, y |-> 0, size |-> 10]>> }

\* The pixels that read bright: none, or the center of the triangle that
\* points down.
Glares == { {}, { <<50, 29>> } }

\* A scanner before its first frame.
InitDerive ==
    /\ config = ScannerConfig
    /\ data = <<>>
    /\ txFrames = <<>>
    /\ encoded = FALSE
    /\ noise = {}
    /\ _currentFrameIndex = 0
    /\ order = "asc"
    /\ fed = {}
    /\ frames = <<>>
    /\ total = 0
    /\ received = 0
    /\ JsFresh
    /\ ScanFresh
    /\ CamFresh
    /\ sample = NoSample
    /\ LibFresh
    /\ lastOp = "New"
    /\ ret = NoRet

\* _scan calls deriveTransform on the blobs of the first video frame; ret
\* keeps the blobs with the transform returned.  (The function keeps nothing
\* from one call to the next.)
DeriveTransform ==
    /\ lastOp = "New"
    /\ \E blobs \in BlobLists, glare \in Glares :
          ret' = [blobs |-> blobs, transform |-> deriveTransform(blobs, glare)]
    /\ lastOp' = "deriveTransform"
    /\ UNCHANGED <<libVars, sample, camVars, scanVars, txVars, fed, goVars, jsVars>>

NextDerive == DeriveTransform

SpecDerive == InitDerive /\ [][NextDerive]_vars

HeaderDots(dotValues) == SubSeq(dotValues, 1, Min(6, Len(dotValues)))

\* The raw header bytes of a capture.
RawHeader(dotValues) == _dotsToBytes(HeaderDots(dotValues))

\* The header bytes of the per-dot vote over the captures.
VotedHeader(captures) ==
    _dotsToBytes(_majorityVote([k \in 1..Len(captures) |-> HeaderDots(captures[k])]))

VotesKept == SumOver(DOMAIN _votes, [i \in DOMAIN _votes |-> Len(_votes[i])])

\* C37: the consensus decoder never reports complete before at least 10
\* valid captures have been tallied and, after the lock, at least 5 captures
\* have been accumulated for every frame index 0..total-1.  The captures
\* tallied before the lock is taken are not kept as votes (the 10th, which
\* takes it, is the first that can be), so a one-frame transmission completes
\* on the 14th valid capture at the earliest.
C37_EarliestCompletion ==
    /\ _totalFrames = null => _votes = <<>>
    /\ _totalFrames # null => VotesKept <= _ftTotal - (FT_SETTLE_MIN - 1)
    /\ (lastOp = "addFrame" /\ ret.complete)
       => /\ _ftTotal >= FT_SETTLE_MIN
          /\ _totalFrames # null
          /\ \A i \in 0..(_totalFrames - 1) :
                i \in DOMAIN _votes /\ Len(_votes[i]) >= MIN_VOTES
          /\ _ftTotal >= FT_SETTLE_MIN - 1 + MIN_VOTES * _totalFrames
          /\ NumFrames = 1 => _ftTotal >= 14

\* A one-frame transmission, read without a misread, has completed on the
\* 14th capture.
C37_Witness ==
    /\ lastOp = "addFrame"
    /\ ret.complete
    /\ NumFrames = 1
    /\ _ftTotal = 14
    /\ _votes[0] = [k \in 1..MIN_VOTES |-> txFrames[1].Dots]

\* ------------------------------------------------- the cache is for good

\* C38: once the scanner has cached a transform the cache is never cleared:
\* stop(), start() and the decoder reset done by start() leave it as it is,
\* and a tick only ever replaces it by another transform, so every later tick
\* samples with a transform and none ends as not detected.
C38_CacheNeverCleared ==
    [][_cachedTransform # NoTransform
       => /\ _cachedTransform' # NoTransform
          /\ lastOp' \in {"start", "stop"} => _cachedTransform' = _cachedTransform
          /\ lastOp' = "_scan"
             => /\ _dbgTransform' # NoTransform
                /\ _dbgStatus' \in {"decoded", "bad-header"}]_vars

\* The scanner was stopped and started again after it cached a transform (the
\* decoder has tallied one capture only), and a tick that finds no blobs has
\* sampled with the cached transform.
C38_Witness ==
    /\ lastOp = "_scan"
    /\ ret.blobs < 3
    /\ ret.freshTransform = NoTransform
    /\ _cachedTransform # NoTransform
    /\ _dbgTransform = _cachedTransform
    /\ _dbgStatus = "decoded"
    /\ _ftTotal = 1

\* ------------------------------------------------- progress over a scan

\* Every index 0..total-1 of the locked total has a stored payload.
EveryFrameStored(s) ==
    /\ s.totalFrames # null
    /\ \A i \in 0..(s.totalFrames - 1) : i \in DOMAIN s.frames

\* C39: between two resets the progress of the consensus decoder never
\* decreases from one addFrame call to the next, whatever the call did with
\* its capture; it is the progress the call reports; and it is 1 exactly
\* when every index 0..total-1 has a stored payload.
C39_ProgressMonotone ==
    [][\A p \in { progress(JsState) }, q \in { progress(JsState') } :
          /\ lastOp' = "addFrame"
             => /\ p[1] * q[2] <= q[1] * p[2]
                /\ ret'.progress[1] * q[2] = q[1] * ret'.progress[2]
          /\ q[1] = q[2] <=> EveryFrameStored(JsState')]_vars

\* A two-frame scan is complete, its progress 1, after a call that found
\* the progress below 1 or at 1 already.
C39_Witness ==
    /\ lastOp = "addFrame"
    /\ _totalFrames = 2
    /\ EveryFrameStored(JsState)
    /\ ret.progress = <<200, 200>>

====
